---- MODULE Spec2Model ----
(***************************************************************************)
(* Streaming buffer engine of linuxvideo (src/src/stream.rs): Buffers,      *)
(* ReadStream and WriteStream, run against a V4L2 driver that owns the      *)
(* buffers queued with it.  Every ioctl of the code is one step; the        *)
(* assignment to a `queued` flag that follows it in the code is the next.   *)
(***************************************************************************)
EXTENDS Integers, Sequences, FiniteSets, TLC

\* Largest buffer count requested from, or granted by, the driver.
MaxBuffers == 3
\* Largest number of dequeue / enqueue calls made on one stream.
MaxCalls == 5
\* Length in bytes of every mapped buffer.
BufferLength == 2
\* Largest index for which the driver of an enumeration is chosen freely.
MaxEnumIndex == 2
\* Largest maximum() of a menu control.
MaxMenuIndex == 2
\* Width in bits of the menu index, which is a u32 in the code.
IndexBits == 3

\* The number of bytes of a fourcc code that are varied over all bytes.
MaxReplaced == 1

VARIABLES
    kind,                  \* which constructor ran: "none", "read", "write"
    pc,                    \* position of the program
    buffer_count,          \* Buffers::allocate: the (mutable) buffer_count
    buffers,               \* Buffers.buffers: Vec<Buffer>, position i+1 is index i
    mapped,                \* indices whose region is mmapped in the process
    next_unqueued_buffer,  \* WriteStream.next_unqueued_buffer: Option<usize>
    loop_i,                \* loop variable of enqueue_all
    buf_index,             \* buf.index / buf_index of the running call
    res,                   \* result of the callback of the running call
    ret,                   \* value returned by the last finished call
    trace,                 \* ioctls, flag updates and callback of the running call
    calls,                 \* number of dequeue / enqueue calls started
    streaming,             \* driver: streaming is on for the stream's type
    kqueue,                \* driver: indices the driver owns (QBUF, not yet DQBUF)
    kdone,                 \* driver: owned indices that are ready for DQBUF
    ever_queued,           \* indices for which a QBUF has succeeded so far
    wrapped,               \* the write cursor has been None at some point
    failed,                \* some callback or ioctl of the stream has failed
    buf,                   \* dequeue: the raw::Buffer that VIDIOC_DQBUF filled in
    device,                \* the configured device that into_stream consumed
    buf_type,              \* ReadStream.buf_type / WriteStream.buf_type
    enum_iter,             \* a FormatDescIter, OutputIter or InputIter and its driver
    menu_iter,             \* a TextMenuIter and the menu of its control
    buf_types_iter,        \* CapabilityFlags, the BufTypes made of them, a BufTypesIter
    pixel                  \* a fourcc code and the pixel formats built from it

\* The variables of lib.rs, buf_type.rs and the pixel format modules.
libVars == <<enum_iter, menu_iter, buf_types_iter, pixel>>

\* The variables of a stream and of its driver.
streamVars == <<kind, pc, buffer_count, buffers, mapped, next_unqueued_buffer, loop_i,
                buf_index, res, ret, trace, calls, streaming, kqueue, kdone,
                ever_queued, wrapped, failed, buf, device, buf_type>>

vars == <<streamVars, libVars>>

progVars == <<kind, pc, buffer_count, buffers, mapped, next_unqueued_buffer, loop_i,
              buf_index, res, ret, trace, calls, ever_queued, wrapped, failed, buf,
              device, buf_type, libVars>>

----------------------------------------------------------------------------
\* Option<usize> as a sequence of length at most one.
None == <<>>
Some(i) == <<i>>
IsSome(o) == Len(o) = 1
Unwrap(o) == o[1]

\* io::Result<T>
Ok(v) == [tag |-> "Ok", val |-> v]
Err(e) == [tag |-> "Err", val |-> e]
NoResult == [tag |-> "none", val |-> ""]

\* What a callback may return: one of two Ok values, or its own error.
CallbackResults == {Ok("v0"), Ok("v1"), Err("callback")}

\* Buffer { ptr, length, queued }; ptr and length are fixed by the index.
NewBuffer == [queued |-> FALSE]
Indices == 0 .. (Len(buffers) - 1)
Queued(i) == buffers[i + 1].queued
SetQueued(bs, i, q) == [bs EXCEPT ![i + 1].queued = q]
QueuedSet == {i \in Indices : Queued(i)}

\* raw::Buffer as mem::zeroed() leaves it: only flags and bytesused are read.
ZeroedBuffer == [flags |-> {}, bytesused |-> 0]

\* The mapped region of buffer i: `length` bytes, each named by its place.
Region(i) == [k \in 1 .. BufferLength |-> <<i, k>>]

\* Variant of ReadBufferView: the view takes the error flag for granted.
ReadBufferView_DropFlags(b, i) ==
    [flags |-> b.flags \ {"ERROR"}, data |-> Region(i), bytesused |-> b.bytesused]

\* ReadBufferView { flags: buf.flags, data, bytesused: buf.bytesused }
ReadBufferView(b, i) ==
    [flags |-> b.flags, data |-> Region(i), bytesused |-> b.bytesused]

\* ReadBufferView::is_error
is_error(view) == "ERROR" \in view.flags

\* ReadBufferView::raw_buffer
raw_buffer(view) == view.data

\* Deref for ReadBufferView: `&self.data[..self.bytesused]`, which panics when
\* the range end is past the slice.
deref(view) ==
    IF view.bytesused <= Len(view.data)
    THEN [panic |-> FALSE, slice |-> SubSeq(view.data, 1, view.bytesused)]
    ELSE [panic |-> TRUE, slice |-> <<>>]

Event(name, i) == <<name, i>>

----------------------------------------------------------------------------
\* The driver side of the buffer ioctls.

\* VIDIOC_QBUF succeeds: the driver takes ownership of buffer i.
KernelQbuf(i) ==
    /\ i \notin kqueue
    /\ kqueue' = kqueue \cup {i}
    /\ UNCHANGED <<kdone, streaming>>

\* VIDIOC_DQBUF succeeds with index i: a finished buffer is handed back.
KernelDqbuf(i) ==
    /\ i \in kdone
    /\ kqueue' = kqueue \ {i}
    /\ kdone' = kdone \ {i}
    /\ UNCHANGED streaming

\* VIDIOC_STREAMON succeeds; with no buffer allocated the driver refuses it
\* (EINVAL), so that it can only fail.
KernelStreamOn ==
    /\ Len(buffers) > 0
    /\ streaming' = TRUE
    /\ UNCHANGED <<kqueue, kdone>>

\* VIDIOC_STREAMOFF succeeds: the driver drops every buffer it holds.
KernelStreamOff ==
    /\ streaming' = FALSE
    /\ kqueue' = {}
    /\ kdone' = {}

\* The flags the driver reports for buffer i in VIDIOC_QUERYBUF.
KernelFlags(i) ==
    {"MAPPED"} \cup (IF i \in kdone THEN {"DONE"}
                     ELSE IF i \in kqueue THEN {"QUEUED"} ELSE {})

\* What VIDIOC_DQBUF may write into the flags and bytesused of the buffer
\* struct: the code takes both as they come.
DequeuedBuffers ==
    [flags : {{"MAPPED"}, {"MAPPED", "ERROR"}}, bytesused : 0 .. (BufferLength + 1)]

\* An ioctl fails: the driver's state is as before.
KernelFail == UNCHANGED <<streaming, kqueue, kdone>>

\* While streaming, the driver fills (capture) or drains (output) a buffer it
\* owns; the buffer is then flagged DONE and can be dequeued.
KernelProcess ==
    /\ streaming
    /\ \E i \in kqueue \ kdone : kdone' = kdone \cup {i}
    /\ UNCHANGED <<kqueue, streaming>>
    /\ UNCHANGED progVars

----------------------------------------------------------------------------
StreamInit ==
    /\ kind = "none"
    /\ pc = "start"
    /\ buffer_count = 0
    /\ buffers = <<>>
    /\ mapped = {}
    /\ next_unqueued_buffer = None
    /\ loop_i = 0
    /\ buf_index = None
    /\ res = NoResult
    /\ ret = NoResult
    /\ trace = <<>>
    /\ calls = 0
    /\ streaming = FALSE
    /\ kqueue = {}
    /\ kdone = {}
    /\ ever_queued = {}
    /\ wrapped = FALSE
    /\ failed = FALSE
    /\ buf = ZeroedBuffer
    /\ device = "none"
    /\ buf_type = "none"

\* No iterator, flag set or pixel format has been made.
NoValue == [made |-> FALSE]

LibInit ==
    /\ enum_iter = NoValue
    /\ menu_iter = NoValue
    /\ buf_types_iter = NoValue
    /\ pixel = NoValue

Init == StreamInit /\ LibInit

----------------------------------------------------------------------------
\* The configured devices of lib.rs and their into_stream.

\* The stream type that Device::video_capture, video_output and meta_capture
\* negotiate with the driver (set_format_raw sets raw_format.type_ from the
\* Format variant).
NegotiatedBufType(d) ==
    CASE d = "VideoCaptureDevice" -> "VIDEO_CAPTURE"
      [] d = "VideoOutputDevice" -> "VIDEO_OUTPUT"
      [] d = "MetaCaptureDevice" -> "META_CAPTURE"

\* The BufType that into_stream of each device passes to the constructor.
IntoStreamBufType(d) ==
    CASE d = "VideoCaptureDevice" -> "VIDEO_CAPTURE"
      [] d = "VideoOutputDevice" -> "VIDEO_CAPTURE"
      [] d = "MetaCaptureDevice" -> "META_CAPTURE"

----------------------------------------------------------------------------
\* Buffers::allocate, called first by both constructors.

\* ReadStream::new(file, buf_type, mem_type, buffer_count)
ReadStream_new ==
    /\ pc = "start"
    /\ \E n \in 0 .. MaxBuffers : buffer_count' = n
    /\ kind' = "read"
    /\ \E d \in {"VideoCaptureDevice", "MetaCaptureDevice"} :
          /\ device' = d
          /\ buf_type' = IntoStreamBufType(d)
    /\ pc' = "alloc_reqbufs"
    /\ UNCHANGED <<buffers, mapped, next_unqueued_buffer, loop_i, buf_index, res, ret,
                   trace, calls, streaming, kqueue, kdone, ever_queued, wrapped, failed>>
    /\ UNCHANGED buf
    /\ UNCHANGED libVars

\* WriteStream::new(file, buf_type, mem_type, buffer_count)
WriteStream_new ==
    /\ pc = "start"
    /\ \E n \in 0 .. MaxBuffers : buffer_count' = n
    /\ kind' = "write"
    /\ device' = "VideoOutputDevice"
    /\ buf_type' = IntoStreamBufType("VideoOutputDevice")
    /\ pc' = "alloc_reqbufs"
    /\ UNCHANGED <<buffers, mapped, next_unqueued_buffer, loop_i, buf_index, res, ret,
                   trace, calls, streaming, kqueue, kdone, ever_queued, wrapped, failed>>
    /\ UNCHANGED buf
    /\ UNCHANGED libVars

\* Variant of Allocate_REQBUFS: the count the driver reports always replaces
\* buffer_count, also when it is larger than the count requested.
Allocate_REQBUFS_UseGranted ==
    /\ pc = "alloc_reqbufs"
    /\ \/ /\ ret' = Err("REQBUFS")
          /\ trace' = Append(trace, Event("REQBUFS_failed", buffer_count))
          /\ failed' = TRUE
          /\ pc' = "end"
          /\ UNCHANGED buffer_count
       \/ \E granted \in 0 .. MaxBuffers :
          /\ buffer_count' = granted
          /\ trace' = trace \o <<Event("REQBUFS", granted), Event("log_debug", granted)>>
                          \o (IF granted < buffer_count
                              THEN <<Event("log_trace", granted)>> ELSE <<>>)
          /\ pc' = "alloc_loop"
          /\ UNCHANGED <<ret, failed>>
    /\ UNCHANGED <<kind, buffers, mapped, next_unqueued_buffer, loop_i, buf_index, res,
                   calls, streaming, kqueue, kdone, ever_queued, wrapped>>
    /\ UNCHANGED buf
    /\ UNCHANGED <<device, buf_type, libVars>>

\* VIDIOC_REQBUFS: fails, or the driver reports the count it allocated (logged
\* with log::debug!); a smaller count than requested is logged with log::trace!
\* and replaces buffer_count.
Allocate_REQBUFS ==
    /\ pc = "alloc_reqbufs"
    /\ \/ /\ ret' = Err("REQBUFS")
          /\ trace' = Append(trace, Event("REQBUFS_failed", buffer_count))
          /\ failed' = TRUE
          /\ pc' = "end"
          /\ UNCHANGED buffer_count
       \/ \E granted \in 0 .. MaxBuffers :
          /\ buffer_count' = IF granted < buffer_count THEN granted ELSE buffer_count
          /\ trace' = trace \o <<Event("REQBUFS", granted), Event("log_debug", granted)>>
                          \o (IF granted < buffer_count
                              THEN <<Event("log_trace", granted)>> ELSE <<>>)
          /\ pc' = "alloc_loop"
          /\ UNCHANGED <<ret, failed>>
    /\ UNCHANGED <<kind, buffers, mapped, next_unqueued_buffer, loop_i, buf_index, res,
                   calls, streaming, kqueue, kdone, ever_queued, wrapped>>
    /\ UNCHANGED buf
    /\ UNCHANGED <<device, buf_type, libVars>>

\* One round of `for i in 0..buffer_count`: VIDIOC_QUERYBUF, mmap, push.  An
\* error returns at once; the regions mapped so far stay mapped.
Allocate_Map ==
    /\ pc = "alloc_loop"
    /\ Len(buffers) < buffer_count
    /\ LET i == Len(buffers) IN
       \/ /\ ret' = Err("QUERYBUF")
          /\ trace' = Append(trace, Event("QUERYBUF_failed", i))
          /\ failed' = TRUE
          /\ pc' = "end"
          /\ UNCHANGED <<buffers, mapped>>
       \/ /\ ret' = Err("mmap")
          /\ trace' = trace \o <<Event("QUERYBUF", i), Event("mmap_failed", i)>>
          /\ failed' = TRUE
          /\ pc' = "end"
          /\ UNCHANGED <<buffers, mapped>>
       \/ /\ buffers' = Append(buffers, NewBuffer)
          /\ mapped' = mapped \cup {i}
          /\ trace' = trace \o <<Event("QUERYBUF", i), Event("mmap", i)>>
          /\ UNCHANGED <<ret, failed, pc>>
    /\ UNCHANGED <<kind, buffer_count, next_unqueued_buffer, loop_i, buf_index, res,
                   calls, streaming, kqueue, kdone, ever_queued, wrapped>>
    /\ UNCHANGED buf
    /\ UNCHANGED <<device, buf_type, libVars>>

\* ReadStream::new after a successful allocate: `this` exists, enqueue_all starts.
ReadStream_new_Allocated ==
    /\ pc = "alloc_loop"
    /\ kind = "read"
    /\ Len(buffers) = buffer_count
    /\ loop_i' = 0
    /\ pc' = "enqueue_all"
    /\ UNCHANGED <<kind, buffer_count, buffers, mapped, next_unqueued_buffer, buf_index,
                   res, ret, trace, calls, streaming, kqueue, kdone, ever_queued,
                   wrapped, failed>>
    /\ UNCHANGED buf
    /\ UNCHANGED <<device, buf_type, libVars>>

\* Variant of WriteStream_new_Allocated: the cursor starts at None.
WriteStream_new_Allocated_NoCursor ==
    /\ pc = "alloc_loop"
    /\ kind = "write"
    /\ Len(buffers) = buffer_count
    /\ next_unqueued_buffer' = None
    /\ ret' = Ok("stream")
    /\ pc' = "idle"
    /\ UNCHANGED <<kind, buffer_count, buffers, mapped, loop_i, buf_index, res, trace,
                   calls, streaming, kqueue, kdone, ever_queued, wrapped, failed>>
    /\ UNCHANGED buf
    /\ UNCHANGED <<device, buf_type, libVars>>

\* WriteStream::new after a successful allocate: the cursor starts at Some(0).
WriteStream_new_Allocated ==
    /\ pc = "alloc_loop"
    /\ kind = "write"
    /\ Len(buffers) = buffer_count
    /\ next_unqueued_buffer' = Some(0)
    /\ ret' = Ok("stream")
    /\ pc' = "idle"
    /\ UNCHANGED <<kind, buffer_count, buffers, mapped, loop_i, buf_index, res, trace,
                   calls, streaming, kqueue, kdone, ever_queued, wrapped, failed>>
    /\ UNCHANGED buf
    /\ UNCHANGED <<device, buf_type, libVars>>

----------------------------------------------------------------------------
\* ReadStream::enqueue_all and ReadStream::stream_on, as run by ReadStream::new.

\* One round of the loop of enqueue_all: an index whose flag is set is passed
\* over; otherwise ReadStream::enqueue(i) issues the VIDIOC_QBUF ioctl.
EnqueueAll_QBUF ==
    /\ pc = "enqueue_all"
    /\ loop_i < Len(buffers)
    /\ IF Queued(loop_i)
       THEN /\ loop_i' = loop_i + 1
            /\ UNCHANGED <<pc, trace, ret, failed, ever_queued, streaming, kqueue, kdone>>
       ELSE /\ UNCHANGED loop_i
            /\ \/ /\ KernelQbuf(loop_i)
                  /\ trace' = Append(trace, Event("QBUF", loop_i))
                  /\ ever_queued' = ever_queued \cup {loop_i}
                  /\ pc' = "enqueue_all_set"
                  /\ UNCHANGED <<ret, failed>>
               \/ /\ KernelFail
                  /\ trace' = Append(trace, Event("QBUF_failed", loop_i))
                  /\ ret' = Err("QBUF")
                  /\ failed' = TRUE
                  /\ pc' = "drop"
                  /\ UNCHANGED ever_queued
    /\ UNCHANGED <<kind, buffer_count, buffers, mapped, next_unqueued_buffer,
                   buf_index, res, calls, wrapped>>
    /\ UNCHANGED buf
    /\ UNCHANGED <<device, buf_type, libVars>>

\* Variant of EnqueueAll_SetQueued: the flag is not set.
EnqueueAll_SetQueued_NoFlag ==
    /\ pc = "enqueue_all_set"
    /\ loop_i' = loop_i + 1
    /\ pc' = "enqueue_all"
    /\ UNCHANGED <<kind, buffer_count, buffers, mapped, next_unqueued_buffer, buf_index,
                   res, ret, trace, calls, streaming, kqueue, kdone, ever_queued,
                   wrapped, failed>>
    /\ UNCHANGED buf
    /\ UNCHANGED <<device, buf_type, libVars>>

\* ReadStream::enqueue(i): `queued = true` after the ioctl succeeded.
EnqueueAll_SetQueued ==
    /\ pc = "enqueue_all_set"
    /\ buffers' = SetQueued(buffers, loop_i, TRUE)
    /\ loop_i' = loop_i + 1
    /\ pc' = "enqueue_all"
    /\ UNCHANGED <<kind, buffer_count, mapped, next_unqueued_buffer, buf_index, res, ret,
                   trace, calls, streaming, kqueue, kdone, ever_queued, wrapped, failed>>
    /\ UNCHANGED buf
    /\ UNCHANGED <<device, buf_type, libVars>>

\* enqueue_all returned Ok.
EnqueueAll_Done ==
    /\ pc = "enqueue_all"
    /\ loop_i = Len(buffers)
    /\ pc' = "stream_on"
    /\ UNCHANGED <<kind, buffer_count, buffers, mapped, next_unqueued_buffer, loop_i,
                   buf_index, res, ret, trace, calls, streaming, kqueue, kdone,
                   ever_queued, wrapped, failed>>
    /\ UNCHANGED buf
    /\ UNCHANGED <<device, buf_type, libVars>>

\* Variant of StreamOn: on failure `this` is not dropped.
StreamOn_Leak ==
    /\ pc = "stream_on"
    /\ \/ /\ KernelStreamOn
          /\ trace' = Append(trace, Event("STREAMON", 0))
          /\ ret' = Ok("stream")
          /\ pc' = "idle"
          /\ UNCHANGED failed
       \/ /\ KernelFail
          /\ trace' = Append(trace, Event("STREAMON_failed", 0))
          /\ ret' = Err("STREAMON")
          /\ failed' = TRUE
          /\ pc' = "end"
    /\ UNCHANGED <<kind, buffer_count, buffers, mapped, next_unqueued_buffer, loop_i,
                   buf_index, res, calls, ever_queued, wrapped>>
    /\ UNCHANGED buf
    /\ UNCHANGED <<device, buf_type, libVars>>

\* ReadStream::stream_on: VIDIOC_STREAMON; on success new returns Ok(this).
StreamOn ==
    /\ pc = "stream_on"
    /\ \/ /\ KernelStreamOn
          /\ trace' = Append(trace, Event("STREAMON", 0))
          /\ ret' = Ok("stream")
          /\ pc' = "idle"
          /\ UNCHANGED failed
       \/ /\ KernelFail
          /\ trace' = Append(trace, Event("STREAMON_failed", 0))
          /\ ret' = Err("STREAMON")
          /\ failed' = TRUE
          /\ pc' = "drop"
    /\ UNCHANGED <<kind, buffer_count, buffers, mapped, next_unqueued_buffer, loop_i,
                   buf_index, res, calls, ever_queued, wrapped>>
    /\ UNCHANGED buf
    /\ UNCHANGED <<device, buf_type, libVars>>

----------------------------------------------------------------------------
\* ReadStream::dequeue(cb)

Dequeue_Call ==
    /\ pc = "idle"
    /\ kind = "read"
    /\ calls < MaxCalls
    /\ calls' = calls + 1
    /\ trace' = <<>>
    /\ buf_index' = None
    /\ res' = NoResult
    /\ buf' = ZeroedBuffer
    /\ pc' = "dq_dqbuf"
    /\ UNCHANGED <<ret, kind, buffer_count, buffers, mapped, next_unqueued_buffer, loop_i,
                   streaming, kqueue, kdone, ever_queued, wrapped, failed>>
    /\ UNCHANGED <<device, buf_type, libVars>>

\* Variant of Dequeue_DQBUF: a failed DQBUF is issued again.
Dequeue_DQBUF_Retry ==
    /\ pc = "dq_dqbuf"
    /\ \/ \E i \in kdone :
          /\ KernelDqbuf(i)
          /\ buf_index' = Some(i)
          /\ \E b \in DequeuedBuffers : buf' = b
          /\ trace' = Append(trace, Event("DQBUF", i))
          /\ pc' = "dq_unqueue"
          /\ UNCHANGED <<ret, failed>>
       \/ /\ KernelFail
          /\ trace' = Append(trace, Event("DQBUF_failed", 0))
          /\ failed' = TRUE
          /\ UNCHANGED <<buf_index, buf, ret, pc>>
    /\ UNCHANGED <<kind, buffer_count, buffers, mapped, next_unqueued_buffer, loop_i,
                   res, calls, ever_queued, wrapped>>
    /\ UNCHANGED <<device, buf_type, libVars>>

\* VIDIOC_DQBUF: blocks until a buffer is ready, or fails (`?` returns the error).
Dequeue_DQBUF ==
    /\ pc = "dq_dqbuf"
    /\ \/ \E i \in kdone :
          /\ KernelDqbuf(i)
          /\ buf_index' = Some(i)
          /\ \E b \in DequeuedBuffers : buf' = b
          /\ trace' = Append(trace, Event("DQBUF", i))
          /\ pc' = "dq_unqueue"
          /\ UNCHANGED <<ret, failed>>
       \/ /\ KernelFail
          /\ trace' = Append(trace, Event("DQBUF_failed", 0))
          /\ ret' = Err("DQBUF")
          /\ failed' = TRUE
          /\ pc' = "idle"
          /\ UNCHANGED <<buf_index, buf>>
    /\ UNCHANGED <<kind, buffer_count, buffers, mapped, next_unqueued_buffer, loop_i,
                   res, calls, ever_queued, wrapped>>
    /\ UNCHANGED <<device, buf_type, libVars>>

\* Variant of Dequeue_Unqueue: the flag of the dequeued buffer is left set.
Dequeue_Unqueue_NoClear ==
    /\ pc = "dq_unqueue"
    /\ trace' = Append(trace, Event("unqueued", Unwrap(buf_index)))
    /\ pc' = "dq_view"
    /\ UNCHANGED <<kind, buffer_count, buffers, mapped, next_unqueued_buffer, loop_i,
                   buf_index, res, ret, calls, streaming, kqueue, kdone, ever_queued,
                   wrapped, failed>>
    /\ UNCHANGED buf
    /\ UNCHANGED <<device, buf_type, libVars>>

\* `buffer.queued = false` for the index DQBUF returned.
Dequeue_Unqueue ==
    /\ pc = "dq_unqueue"
    /\ buffers' = SetQueued(buffers, Unwrap(buf_index), FALSE)
    /\ trace' = Append(trace, Event("unqueued", Unwrap(buf_index)))
    /\ pc' = "dq_view"
    /\ UNCHANGED <<kind, buffer_count, mapped, next_unqueued_buffer, loop_i, buf_index,
                   res, ret, calls, streaming, kqueue, kdone, ever_queued, wrapped, failed>>
    /\ UNCHANGED buf
    /\ UNCHANGED <<device, buf_type, libVars>>

\* The ReadBufferView of that buffer is built and cb(view) is entered.
Dequeue_Callback ==
    /\ pc = "dq_view"
    /\ trace' = Append(trace, Event("callback", Unwrap(buf_index)))
    /\ pc' = "dq_in_cb"
    /\ UNCHANGED <<kind, buffer_count, buffers, mapped, next_unqueued_buffer, loop_i,
                   buf_index, res, ret, calls, streaming, kqueue, kdone, ever_queued,
                   wrapped, failed>>
    /\ UNCHANGED buf
    /\ UNCHANGED <<device, buf_type, libVars>>

\* Variant of Dequeue_CallbackReturn: an error of the callback is returned at
\* once, without the re-enqueue.
Dequeue_CallbackReturn_ShortCircuit ==
    /\ pc = "dq_in_cb"
    /\ \E r \in CallbackResults :
       /\ res' = r
       /\ failed' = (failed \/ r.tag = "Err")
       /\ IF r.tag = "Err"
          THEN ret' = r /\ pc' = "idle"
          ELSE pc' = "dq_qbuf" /\ UNCHANGED ret
    /\ UNCHANGED <<kind, buffer_count, buffers, mapped, next_unqueued_buffer, loop_i,
                   buf_index, trace, calls, streaming, kqueue, kdone, ever_queued,
                   wrapped>>
    /\ UNCHANGED buf
    /\ UNCHANGED <<device, buf_type, libVars>>

\* cb returns; its result is kept in `res`, nothing is returned yet.
Dequeue_CallbackReturn ==
    /\ pc = "dq_in_cb"
    /\ \E r \in CallbackResults :
       /\ res' = r
       /\ failed' = (failed \/ r.tag = "Err")
    /\ pc' = "dq_qbuf"
    /\ UNCHANGED <<kind, buffer_count, buffers, mapped, next_unqueued_buffer, loop_i,
                   buf_index, ret, trace, calls, streaming, kqueue, kdone, ever_queued,
                   wrapped>>
    /\ UNCHANGED buf
    /\ UNCHANGED <<device, buf_type, libVars>>

\* Variant of DequeueResult: an error of the callback takes precedence.
DequeueResult_CallbackFirst(cb_res, enqueue_res) ==
    IF cb_res.tag = "Err" THEN cb_res
    ELSE IF enqueue_res.tag = "Err" THEN enqueue_res ELSE cb_res

\* `self.enqueue(buf.index)?; res`: the error of the re-enqueue if it failed,
\* the callback's result otherwise.
DequeueResult(cb_res, enqueue_res) ==
    IF enqueue_res.tag = "Err" THEN enqueue_res ELSE cb_res

\* Variant of Dequeue_QBUF: the re-enqueue is recorded without the driver
\* being handed the buffer.
Dequeue_QBUF_Skip ==
    /\ pc = "dq_qbuf"
    /\ LET i == Unwrap(buf_index) IN
       /\ KernelFail
       /\ trace' = Append(trace, Event("QBUF", i))
       /\ pc' = "dq_set_queued"
       /\ UNCHANGED <<ret, failed, ever_queued>>
    /\ UNCHANGED <<kind, buffer_count, buffers, mapped, next_unqueued_buffer, loop_i,
                   buf_index, res, calls, wrapped>>
    /\ UNCHANGED buf
    /\ UNCHANGED <<device, buf_type, libVars>>

\* self.enqueue(buf.index)?: the VIDIOC_QBUF ioctl.
Dequeue_QBUF ==
    /\ pc = "dq_qbuf"
    /\ LET i == Unwrap(buf_index) IN
       \/ /\ KernelQbuf(i)
          /\ trace' = Append(trace, Event("QBUF", i))
          /\ ever_queued' = ever_queued \cup {i}
          /\ pc' = "dq_set_queued"
          /\ UNCHANGED <<ret, failed, buf>>
       \/ /\ KernelFail
          /\ trace' = Append(trace, Event("QBUF_failed", i))
          /\ ret' = DequeueResult(res, Err("QBUF"))
          /\ failed' = TRUE
          /\ pc' = "idle"
          /\ buf' = ZeroedBuffer
          /\ UNCHANGED ever_queued
    /\ UNCHANGED <<kind, buffer_count, buffers, mapped, next_unqueued_buffer, loop_i,
                   buf_index, res, calls, wrapped>>
    /\ UNCHANGED <<device, buf_type, libVars>>

\* ReadStream::enqueue sets `queued = true`; dequeue then returns `res`, and
\* its local `buf` is gone.
Dequeue_SetQueued ==
    /\ pc = "dq_set_queued"
    /\ buffers' = SetQueued(buffers, Unwrap(buf_index), TRUE)
    /\ ret' = DequeueResult(res, Ok(""))
    /\ pc' = "idle"
    /\ UNCHANGED <<kind, buffer_count, mapped, next_unqueued_buffer, loop_i, buf_index,
                   res, trace, calls, streaming, kqueue, kdone, ever_queued, wrapped,
                   failed>>
    /\ buf' = ZeroedBuffer
    /\ UNCHANGED <<device, buf_type, libVars>>

----------------------------------------------------------------------------
\* ReadStream::will_block()

WillBlock_Call ==
    /\ pc = "idle"
    /\ kind = "read"
    /\ loop_i' = 0
    /\ trace' = <<>>
    /\ pc' = "will_block"
    /\ UNCHANGED <<ret, kind, buffer_count, buffers, mapped, next_unqueued_buffer, buf_index,
                   res, calls, streaming, kqueue, kdone, ever_queued, wrapped, failed>>
    /\ UNCHANGED buf
    /\ UNCHANGED <<device, buf_type, libVars>>

\* Variant of DoneReported: the QUEUED flag is tested.
DoneReported_Queued(flags) == "QUEUED" \in flags

\* buf.flags.contains(BufFlag::DONE)
DoneReported(flags) == "DONE" \in flags

\* What a successful QUERYBUF of index i leaves in the trace: the ioctl, and
\* the DONE flag when the driver reported it.
QuerybufEvents(i, flags) ==
    <<Event("QUERYBUF", i)>> \o (IF "DONE" \in flags THEN <<Event("DONE", i)>> ELSE <<>>)

\* Variant of WillBlock_QUERYBUF: a buffer found DONE is marked unqueued.
WillBlock_QUERYBUF_Unqueue ==
    /\ pc = "will_block"
    /\ loop_i < Len(buffers)
    /\ \/ /\ trace' = Append(trace, Event("QUERYBUF_failed", loop_i))
          /\ ret' = Err("QUERYBUF")
          /\ failed' = TRUE
          /\ pc' = "idle"
          /\ UNCHANGED <<loop_i, buffers>>
       \/ /\ trace' = trace \o QuerybufEvents(loop_i, KernelFlags(loop_i))
          /\ IF DoneReported(KernelFlags(loop_i))
             THEN /\ ret' = Ok("false")
                  /\ pc' = "idle"
                  /\ buffers' = SetQueued(buffers, loop_i, FALSE)
                  /\ UNCHANGED loop_i
             ELSE /\ loop_i' = loop_i + 1
                  /\ UNCHANGED <<ret, pc, buffers>>
          /\ UNCHANGED failed
    /\ KernelFail
    /\ UNCHANGED <<kind, buffer_count, mapped, next_unqueued_buffer, buf_index,
                   res, calls, ever_queued, wrapped>>
    /\ UNCHANGED buf
    /\ UNCHANGED <<device, buf_type, libVars>>

\* One round of the loop: VIDIOC_QUERYBUF for index loop_i, then the DONE test.
WillBlock_QUERYBUF ==
    /\ pc = "will_block"
    /\ loop_i < Len(buffers)
    /\ \/ /\ trace' = Append(trace, Event("QUERYBUF_failed", loop_i))
          /\ ret' = Err("QUERYBUF")
          /\ failed' = TRUE
          /\ pc' = "idle"
          /\ UNCHANGED loop_i
       \/ /\ trace' = trace \o QuerybufEvents(loop_i, KernelFlags(loop_i))
          /\ IF DoneReported(KernelFlags(loop_i))
             THEN /\ ret' = Ok("false")
                  /\ pc' = "idle"
                  /\ UNCHANGED loop_i
             ELSE /\ loop_i' = loop_i + 1
                  /\ UNCHANGED <<ret, pc>>
          /\ UNCHANGED failed
    /\ KernelFail
    /\ UNCHANGED <<kind, buffer_count, buffers, mapped, next_unqueued_buffer, buf_index,
                   res, calls, ever_queued, wrapped>>
    /\ UNCHANGED buf
    /\ UNCHANGED <<device, buf_type, libVars>>

\* Variant of WillBlock_Done: the loop falls through to Ok(false).
WillBlock_Done_False ==
    /\ pc = "will_block"
    /\ loop_i = Len(buffers)
    /\ ret' = Ok("false")
    /\ pc' = "idle"
    /\ UNCHANGED <<kind, buffer_count, buffers, mapped, next_unqueued_buffer, loop_i,
                   buf_index, res, trace, calls, streaming, kqueue, kdone, ever_queued,
                   wrapped, failed>>
    /\ UNCHANGED buf
    /\ UNCHANGED <<device, buf_type, libVars>>

\* No buffer was DONE: Ok(true).
WillBlock_Done ==
    /\ pc = "will_block"
    /\ loop_i = Len(buffers)
    /\ ret' = Ok("true")
    /\ pc' = "idle"
    /\ UNCHANGED <<kind, buffer_count, buffers, mapped, next_unqueued_buffer, loop_i,
                   buf_index, res, trace, calls, streaming, kqueue, kdone, ever_queued,
                   wrapped, failed>>
    /\ UNCHANGED buf
    /\ UNCHANGED <<device, buf_type, libVars>>

----------------------------------------------------------------------------
\* WriteStream::enqueue(cb)

\* `match self.next_unqueued_buffer`: Some(i) is used as it is, None dequeues.
Enqueue_Call ==
    /\ pc = "idle"
    /\ kind = "write"
    /\ calls < MaxCalls
    /\ calls' = calls + 1
    /\ trace' = <<>>
    /\ res' = NoResult
    /\ IF IsSome(next_unqueued_buffer)
       THEN /\ buf_index' = next_unqueued_buffer
            /\ pc' = "enq_buffer"
       ELSE /\ buf_index' = None
            /\ pc' = "enq_dqbuf"
    /\ UNCHANGED <<ret, kind, buffer_count, buffers, mapped, next_unqueued_buffer, loop_i,
                   streaming, kqueue, kdone, ever_queued, wrapped, failed>>
    /\ UNCHANGED buf
    /\ UNCHANGED <<device, buf_type, libVars>>

\* Variant of Enqueue_DQBUF: a failed DQBUF moves the cursor to the first buffer.
Enqueue_DQBUF_RecordCursor ==
    /\ pc = "enq_dqbuf"
    /\ \/ \E i \in kdone :
          /\ KernelDqbuf(i)
          /\ buf_index' = Some(i)
          /\ trace' = Append(trace, Event("DQBUF", i))
          /\ pc' = "enq_unqueue"
          /\ UNCHANGED <<ret, failed, next_unqueued_buffer>>
       \/ /\ KernelFail
          /\ trace' = Append(trace, Event("DQBUF_failed", 0))
          /\ ret' = Err("DQBUF")
          /\ failed' = TRUE
          /\ next_unqueued_buffer' = Some(0)
          /\ pc' = "idle"
          /\ UNCHANGED buf_index
    /\ UNCHANGED <<kind, buffer_count, buffers, mapped, loop_i,
                   res, calls, ever_queued, wrapped>>
    /\ UNCHANGED buf
    /\ UNCHANGED <<device, buf_type, libVars>>

\* VIDIOC_DQBUF in the None arm: blocks until a buffer is ready, or fails.
Enqueue_DQBUF ==
    /\ pc = "enq_dqbuf"
    /\ \/ \E i \in kdone :
          /\ KernelDqbuf(i)
          /\ buf_index' = Some(i)
          /\ trace' = Append(trace, Event("DQBUF", i))
          /\ pc' = "enq_unqueue"
          /\ UNCHANGED <<ret, failed>>
       \/ /\ KernelFail
          /\ trace' = Append(trace, Event("DQBUF_failed", 0))
          /\ ret' = Err("DQBUF")
          /\ failed' = TRUE
          /\ pc' = "idle"
          /\ UNCHANGED buf_index
    /\ UNCHANGED <<kind, buffer_count, buffers, mapped, next_unqueued_buffer, loop_i,
                   res, calls, ever_queued, wrapped>>
    /\ UNCHANGED buf
    /\ UNCHANGED <<device, buf_type, libVars>>

\* `self.buffers.buffers[buf_index].queued = false` in the None arm.
Enqueue_Unqueue ==
    /\ pc = "enq_unqueue"
    /\ buffers' = SetQueued(buffers, Unwrap(buf_index), FALSE)
    /\ trace' = Append(trace, Event("unqueued", Unwrap(buf_index)))
    /\ pc' = "enq_buffer"
    /\ UNCHANGED <<kind, buffer_count, mapped, next_unqueued_buffer, loop_i, buf_index,
                   res, ret, calls, streaming, kqueue, kdone, ever_queued, wrapped, failed>>
    /\ UNCHANGED buf
    /\ UNCHANGED <<device, buf_type, libVars>>

\* Variant of AssertUnqueued: the assertion is compiled out.
AssertUnqueued_Off(i) == TRUE

\* `assert!(!buffer.queued)` passes for the buffer at index i.
AssertUnqueued(i) == ~Queued(i)

\* `&mut self.buffers.buffers[buf_index]` and the assertion; either panics, or
\* the WriteBufferView is built and cb(view) is entered.
Enqueue_Callback ==
    /\ pc = "enq_buffer"
    /\ LET i == Unwrap(buf_index) IN
       IF i >= Len(buffers)
       THEN /\ ret' = [tag |-> "panic", val |-> "index out of bounds"]
            /\ pc' = "panicked"
            /\ UNCHANGED trace
       ELSE IF ~AssertUnqueued(i)
       THEN /\ ret' = [tag |-> "panic", val |-> "assertion failed"]
            /\ pc' = "panicked"
            /\ UNCHANGED trace
       ELSE /\ trace' = Append(trace, Event("callback", i))
            /\ pc' = "enq_in_cb"
            /\ UNCHANGED ret
    /\ UNCHANGED <<kind, buffer_count, buffers, mapped, next_unqueued_buffer, loop_i,
                   buf_index, res, calls, streaming, kqueue, kdone, ever_queued,
                   wrapped, failed>>
    /\ UNCHANGED buf
    /\ UNCHANGED <<device, buf_type, libVars>>

\* Variant of RecordUnqueued: the Err arms leave the cursor as it is.
RecordUnqueued_Keep(cursor, i) == cursor

\* `self.next_unqueued_buffer = Some(buf_index)` in both Err arms.
RecordUnqueued(cursor, i) == Some(i)

\* cb returns: Ok(val) goes on to enqueue_buffer, Err(e) records the buffer as
\* the next one to hand out and returns e.
Enqueue_CallbackReturn ==
    /\ pc = "enq_in_cb"
    /\ \E r \in CallbackResults :
       /\ res' = r
       /\ IF r.tag = "Ok"
          THEN /\ pc' = "enq_qbuf"
               /\ UNCHANGED <<next_unqueued_buffer, ret, failed>>
          ELSE /\ next_unqueued_buffer' =
                      RecordUnqueued(next_unqueued_buffer, Unwrap(buf_index))
               /\ ret' = r
               /\ failed' = TRUE
               /\ pc' = "idle"
    /\ UNCHANGED <<kind, buffer_count, buffers, mapped, loop_i, buf_index, trace, calls,
                   streaming, kqueue, kdone, ever_queued, wrapped>>
    /\ UNCHANGED buf
    /\ UNCHANGED <<device, buf_type, libVars>>

\* self.enqueue_buffer(buf_index): the VIDIOC_QBUF ioctl; on failure the buffer
\* is recorded as the next one to hand out and the error is returned.
Enqueue_QBUF ==
    /\ pc = "enq_qbuf"
    /\ LET i == Unwrap(buf_index) IN
       \/ /\ KernelQbuf(i)
          /\ trace' = Append(trace, Event("QBUF", i))
          /\ ever_queued' = ever_queued \cup {i}
          /\ pc' = "enq_set_queued"
          /\ UNCHANGED <<next_unqueued_buffer, ret, failed>>
       \/ /\ KernelFail
          /\ trace' = Append(trace, Event("QBUF_failed", i))
          /\ next_unqueued_buffer' = RecordUnqueued(next_unqueued_buffer, i)
          /\ ret' = Err("QBUF")
          /\ failed' = TRUE
          /\ pc' = "idle"
          /\ UNCHANGED ever_queued
    /\ UNCHANGED <<kind, buffer_count, buffers, mapped, loop_i, buf_index, res, calls,
                   wrapped>>
    /\ UNCHANGED buf
    /\ UNCHANGED <<device, buf_type, libVars>>

\* Variant of AdvanceCursor: the cursor stays on the buffer just queued.
AdvanceCursor_Stay(cursor, len) == cursor

\* Variant of AdvanceCursor: past the last index the cursor starts over at 0.
AdvanceCursor_Cycle(cursor, len) ==
    IF IsSome(cursor)
    THEN IF Unwrap(cursor) + 1 = len THEN Some(0) ELSE Some(Unwrap(cursor) + 1)
    ELSE None

\* The cursor after a successful enqueue_buffer: `match self.next_unqueued_buffer`.
AdvanceCursor(cursor, len) ==
    IF IsSome(cursor)
    THEN IF Unwrap(cursor) + 1 = len THEN None ELSE Some(Unwrap(cursor) + 1)
    ELSE None

\* enqueue_buffer sets `queued = true`; the cursor moves on; Ok(val) is returned.
Enqueue_SetQueued ==
    /\ pc = "enq_set_queued"
    /\ buffers' = SetQueued(buffers, Unwrap(buf_index), TRUE)
    /\ next_unqueued_buffer' = AdvanceCursor(next_unqueued_buffer, Len(buffers))
    /\ wrapped' = (wrapped \/ next_unqueued_buffer' = None)
    /\ ret' = res
    /\ pc' = "idle"
    /\ UNCHANGED <<kind, buffer_count, mapped, loop_i, buf_index, res, trace, calls,
                   streaming, kqueue, kdone, ever_queued, failed>>
    /\ UNCHANGED buf
    /\ UNCHANGED <<device, buf_type, libVars>>

\* Streaming of the output queue is switched on from outside the WriteStream
\* (WriteStream itself never issues VIDIOC_STREAMON).
ExternalStreamOn ==
    /\ kind = "write"
    /\ pc = "idle"
    /\ ~streaming
    /\ KernelStreamOn
    /\ UNCHANGED progVars

----------------------------------------------------------------------------
\* Dropping a stream.

\* Variant of Drop_Call: a ReadStream is dropped without Drop::drop running.
Drop_Call_NoStreamOff ==
    /\ pc = "idle"
    /\ trace' = <<>>
    /\ loop_i' = 0
    /\ pc' = "drop_buffers"
    /\ UNCHANGED <<kind, buffer_count, buffers, mapped, next_unqueued_buffer, buf_index,
                   res, ret, calls, streaming, kqueue, kdone, ever_queued, wrapped, failed>>
    /\ UNCHANGED buf
    /\ UNCHANGED <<device, buf_type, libVars>>

\* The owner drops the stream between two calls.
Drop_Call ==
    /\ pc = "idle"
    /\ trace' = <<>>
    /\ loop_i' = 0
    /\ pc' = IF kind = "read" THEN "drop" ELSE "drop_buffers"
    /\ UNCHANGED <<kind, buffer_count, buffers, mapped, next_unqueued_buffer, buf_index,
                   res, ret, calls, streaming, kqueue, kdone, ever_queued, wrapped, failed>>
    /\ UNCHANGED buf
    /\ UNCHANGED <<device, buf_type, libVars>>

\* Variant of ReadStream_drop_STREAMOFF: stream_off clears the flags although
\* the ioctl failed.
ReadStream_drop_STREAMOFF_ClearAnyway ==
    /\ pc = "drop"
    /\ \/ /\ KernelStreamOff
          /\ trace' = Append(trace, Event("STREAMOFF", 0))
       \/ /\ KernelFail
          /\ trace' = Append(trace, Event("STREAMOFF_failed", 0))
    /\ pc' = "drop_unqueue"
    /\ loop_i' = 0
    /\ UNCHANGED <<kind, buffer_count, buffers, mapped, next_unqueued_buffer, buf_index,
                   res, ret, calls, ever_queued, wrapped, failed>>
    /\ UNCHANGED buf
    /\ UNCHANGED <<device, buf_type, libVars>>

\* Drop for ReadStream: self.stream_off().ok(), the VIDIOC_STREAMOFF ioctl.
ReadStream_drop_STREAMOFF ==
    /\ pc = "drop"
    /\ \/ /\ KernelStreamOff
          /\ trace' = Append(trace, Event("STREAMOFF", 0))
          /\ pc' = "drop_unqueue"
       \/ /\ KernelFail
          /\ trace' = Append(trace, Event("STREAMOFF_failed", 0))
          /\ pc' = "drop_buffers"
    /\ loop_i' = 0
    /\ UNCHANGED <<kind, buffer_count, buffers, mapped, next_unqueued_buffer, buf_index,
                   res, ret, calls, ever_queued, wrapped, failed>>
    /\ UNCHANGED buf
    /\ UNCHANGED <<device, buf_type, libVars>>

\* stream_off after the ioctl succeeded: every flag is cleared.
ReadStream_stream_off_Unqueue ==
    /\ pc = "drop_unqueue"
    /\ buffers' = [k \in 1 .. Len(buffers) |-> [buffers[k] EXCEPT !.queued = FALSE]]
    /\ pc' = "drop_buffers"
    /\ UNCHANGED <<kind, buffer_count, mapped, next_unqueued_buffer, loop_i, buf_index,
                   res, ret, trace, calls, streaming, kqueue, kdone, ever_queued,
                   wrapped, failed>>
    /\ UNCHANGED buf
    /\ UNCHANGED <<device, buf_type, libVars>>

\* Variant of Buffers_drop_munmap: the loop does not move on.
Buffers_drop_munmap_NoAdvance ==
    /\ pc = "drop_buffers"
    /\ loop_i < Len(buffers)
    /\ mapped' = mapped \ {loop_i}
    /\ trace' = Append(trace, Event("munmap", loop_i))
    /\ UNCHANGED <<kind, pc, buffer_count, buffers, next_unqueued_buffer, buf_index, loop_i,
                   res, ret, calls, streaming, kqueue, kdone, ever_queued, wrapped, failed>>
    /\ UNCHANGED buf
    /\ UNCHANGED <<device, buf_type, libVars>>

\* Drop for Buffers: munmap of the next buffer of the pool.
Buffers_drop_munmap ==
    /\ pc = "drop_buffers"
    /\ loop_i < Len(buffers)
    /\ mapped' = mapped \ {loop_i}
    /\ trace' = Append(trace, Event("munmap", loop_i))
    /\ loop_i' = loop_i + 1
    /\ UNCHANGED <<kind, pc, buffer_count, buffers, next_unqueued_buffer, buf_index,
                   res, ret, calls, streaming, kqueue, kdone, ever_queued, wrapped, failed>>
    /\ UNCHANGED buf
    /\ UNCHANGED <<device, buf_type, libVars>>

\* Drop for Buffers: every buffer was visited.
Buffers_drop_Done ==
    /\ pc = "drop_buffers"
    /\ loop_i = Len(buffers)
    /\ pc' = "end"
    /\ UNCHANGED <<kind, buffer_count, buffers, mapped, next_unqueued_buffer, loop_i,
                   buf_index, res, ret, trace, calls, streaming, kqueue, kdone,
                   ever_queued, wrapped, failed>>
    /\ UNCHANGED buf
    /\ UNCHANGED <<device, buf_type, libVars>>

----------------------------------------------------------------------------
Next ==
    \/ ReadStream_new
    \/ WriteStream_new
    \/ Allocate_REQBUFS
    \/ Allocate_Map
    \/ ReadStream_new_Allocated
    \/ WriteStream_new_Allocated
    \/ EnqueueAll_QBUF
    \/ EnqueueAll_SetQueued
    \/ EnqueueAll_Done
    \/ StreamOn
    \/ Dequeue_Call
    \/ Dequeue_DQBUF
    \/ Dequeue_Unqueue
    \/ Dequeue_Callback
    \/ Dequeue_CallbackReturn
    \/ Dequeue_QBUF
    \/ Dequeue_SetQueued
    \/ WillBlock_Call
    \/ WillBlock_QUERYBUF
    \/ WillBlock_Done
    \/ Enqueue_Call
    \/ Enqueue_DQBUF
    \/ Enqueue_Unqueue
    \/ Enqueue_Callback
    \/ Enqueue_CallbackReturn
    \/ Enqueue_QBUF
    \/ Enqueue_SetQueued
    \/ ExternalStreamOn
    \/ Drop_Call
    \/ ReadStream_drop_STREAMOFF
    \/ ReadStream_stream_off_Unqueue
    \/ Buffers_drop_munmap
    \/ Buffers_drop_Done
    \/ KernelProcess

Spec == Init /\ [][Next]_vars

----------------------------------------------------------------------------
\* A ReadStream that is constructed and then used for dequeue calls only, with
\* the driver filling buffers while it streams.

\* An ioctl (or the mmap of the allocation) has failed in the last call.
IoctlFailed == ret.tag = "Err" /\ ret.val # "callback"

\* The steps the program takes by itself once a call has been made.
ReadSteps ==
    \/ Allocate_REQBUFS
    \/ Allocate_Map
    \/ ReadStream_new_Allocated
    \/ EnqueueAll_QBUF
    \/ EnqueueAll_SetQueued
    \/ EnqueueAll_Done
    \/ StreamOn
    \/ Dequeue_DQBUF
    \/ Dequeue_Unqueue
    \/ Dequeue_Callback
    \/ Dequeue_CallbackReturn
    \/ Dequeue_QBUF
    \/ Dequeue_SetQueued

ReadNext ==
    \/ ReadStream_new
    \/ Allocate_REQBUFS
    \/ Allocate_Map
    \/ ReadStream_new_Allocated
    \/ EnqueueAll_QBUF
    \/ EnqueueAll_SetQueued
    \/ EnqueueAll_Done
    \/ StreamOn
    \/ Dequeue_Call
    \/ Dequeue_DQBUF
    \/ Dequeue_Unqueue
    \/ Dequeue_Callback
    \/ Dequeue_CallbackReturn
    \/ Dequeue_QBUF
    \/ Dequeue_SetQueued
    \/ KernelProcess

\* The thread of the program keeps running, which a step that does not fail
\* shows whenever there is one; a callback returns; the driver goes on filling
\* the buffers it owns while streaming is on.
ReadLiveSpec ==
    /\ Init
    /\ [][ReadNext]_vars
    /\ WF_vars(ReadSteps /\ ~IoctlFailed')
    /\ WF_vars(KernelProcess)

----------------------------------------------------------------------------
\* A WriteStream driven through WriteStream::new and enqueue alone.  Neither
\* issues VIDIOC_STREAMON, so streaming stays off: the driver never processes
\* a queued buffer (KernelProcess is never enabled), a DQBUF never returns a
\* buffer, and the flag assignment after a DQBUF is never reached; the steps
\* that cannot occur are not listed.

WriteSteps ==
    \/ Allocate_REQBUFS
    \/ Allocate_Map
    \/ WriteStream_new_Allocated
    \/ Enqueue_DQBUF
    \/ Enqueue_Callback
    \/ Enqueue_CallbackReturn
    \/ Enqueue_QBUF
    \/ Enqueue_SetQueued

WriteOwnNext ==
    \/ WriteStream_new
    \/ Allocate_REQBUFS
    \/ Allocate_Map
    \/ WriteStream_new_Allocated
    \/ Enqueue_Call
    \/ Enqueue_DQBUF
    \/ Enqueue_Callback
    \/ Enqueue_CallbackReturn
    \/ Enqueue_QBUF
    \/ Enqueue_SetQueued

WriteOwnSpec ==
    /\ Init
    /\ [][WriteOwnNext]_vars
    /\ WF_vars(WriteSteps /\ ~IoctlFailed')

----------------------------------------------------------------------------
\* FormatDescIter, OutputIter and InputIter of lib.rs: Device::formats,
\* Device::outputs and Device::inputs make one with next_index 0, and each
\* call of next issues at most one ENUM_FMT / ENUMOUTPUT / ENUMINPUT ioctl.

EnumIters == {"FormatDescIter", "OutputIter", "InputIter"}

\* What the driver answers to the query of each index.
EnumDrivers == [0 .. MaxEnumIndex -> {"Ok", "EINVAL", "EIO"}]

\* The answer to the query of index i; past the last index it is EINVAL.
EnumResponse(d, i) == IF i \in DOMAIN d THEN d[i] ELSE "EINVAL"

\* Number of next() calls made on one iterator.
MaxNextCalls == MaxEnumIndex + 3

\* Option<Result<T>> of Iterator::next
NoneItem == [tag |-> "None", val |-> 0]
SomeOk(i) == [tag |-> "Some(Ok)", val |-> i]
SomeErr(e) == [tag |-> "Some(Err)", val |-> e]

\* The iterator as Device::formats / outputs / inputs builds it, with the
\* queries issued and the items returned so far.
NewEnumIter(which, d) ==
    [made |-> TRUE, iter |-> which, driver |-> d, next_index |-> 0,
     finished |-> FALSE, queries |-> <<>>, items |-> <<>>]

EnumInit ==
    /\ StreamInit
    /\ enum_iter \in {NewEnumIter(w, d) : w \in EnumIters, d \in EnumDrivers}
    /\ menu_iter = NoValue
    /\ buf_types_iter = NoValue
    /\ pixel = NoValue

\* Variant of EnumNext: only EINVAL marks the iterator as finished.
EnumNext_ErrorNotFinal(it) ==
    IF it.finished
    THEN [it EXCEPT !.items = Append(@, NoneItem)]
    ELSE LET r == EnumResponse(it.driver, it.next_index)
             q == Append(it.queries, it.next_index) IN
         IF r = "Ok"
         THEN [it EXCEPT !.queries = q,
                         !.next_index = @ + 1,
                         !.items = Append(@, SomeOk(it.next_index))]
         ELSE IF r = "EINVAL"
         THEN [it EXCEPT !.queries = q,
                         !.finished = TRUE,
                         !.items = Append(@, NoneItem)]
         ELSE [it EXCEPT !.queries = q,
                         !.items = Append(@, SomeErr(r))]

\* Iterator::next of the three iterators, whose bodies differ in the ioctl
\* only: return None when finished; query next_index; on an error set
\* finished and return None for EINVAL, Some(Err) otherwise; on success
\* advance next_index and return the item.
EnumNext(it) ==
    IF it.finished
    THEN [it EXCEPT !.items = Append(@, NoneItem)]
    ELSE LET r == EnumResponse(it.driver, it.next_index)
             q == Append(it.queries, it.next_index) IN
         IF r = "Ok"
         THEN [it EXCEPT !.queries = q,
                         !.next_index = @ + 1,
                         !.items = Append(@, SomeOk(it.next_index))]
         ELSE [it EXCEPT !.queries = q,
                         !.finished = TRUE,
                         !.items = Append(@, IF r = "EINVAL" THEN NoneItem
                                                              ELSE SomeErr(r))]

FormatDescIter_next ==
    /\ enum_iter.made
    /\ enum_iter.iter = "FormatDescIter"
    /\ Len(enum_iter.items) < MaxNextCalls
    /\ enum_iter' = EnumNext(enum_iter)
    /\ UNCHANGED <<streamVars, menu_iter, buf_types_iter, pixel>>

OutputIter_next ==
    /\ enum_iter.made
    /\ enum_iter.iter = "OutputIter"
    /\ Len(enum_iter.items) < MaxNextCalls
    /\ enum_iter' = EnumNext(enum_iter)
    /\ UNCHANGED <<streamVars, menu_iter, buf_types_iter, pixel>>

InputIter_next ==
    /\ enum_iter.made
    /\ enum_iter.iter = "InputIter"
    /\ Len(enum_iter.items) < MaxNextCalls
    /\ enum_iter' = EnumNext(enum_iter)
    /\ UNCHANGED <<streamVars, menu_iter, buf_types_iter, pixel>>

EnumIterNext == FormatDescIter_next \/ OutputIter_next \/ InputIter_next

EnumIterSpec == EnumInit /\ [][EnumIterNext]_vars

----------------------------------------------------------------------------
\* TextMenuIter of lib.rs: Device::enumerate_menu makes one from the minimum
\* and maximum of a menu control; next() loops over VIDIOC_QUERYMENU.

\* 2^IndexBits: the index is a machine word that wraps or traps past its top.
IndexModulus == 2 ^ IndexBits

\* What the driver answers for the indices between minimum and maximum; it
\* rejects every index outside that range with EINVAL.
MenuResponse(menu, i) == IF i \in DOMAIN menu THEN menu[i] ELSE "EINVAL"

\* The iterator as Device::enumerate_menu builds it.
NewTextMenuIter(menu, lo, hi) ==
    [made |-> TRUE, menu |-> menu, next_index |-> lo, max_index |-> hi,
     at |-> "idle", queried |-> {}, items |-> <<>>]

TextMenuInit ==
    /\ StreamInit
    /\ \E lo \in 0 .. MaxMenuIndex :
          \E hi \in lo .. MaxMenuIndex :
             \E menu \in [lo .. hi -> {"Ok", "EINVAL", "EIO"}] :
                menu_iter = NewTextMenuIter(menu, lo, hi)
    /\ enum_iter = NoValue
    /\ buf_types_iter = NoValue
    /\ pixel = NoValue

\* next() is called: None when next_index is past max_index, the loop otherwise.
TextMenuIter_next ==
    /\ menu_iter.made
    /\ menu_iter.at = "idle"
    /\ Len(menu_iter.items) < MaxNextCalls
    /\ menu_iter' =
          IF menu_iter.next_index > menu_iter.max_index
          THEN [menu_iter EXCEPT !.items = Append(@, NoneItem)]
          ELSE [menu_iter EXCEPT !.at = "loop"]
    /\ UNCHANGED <<streamVars, enum_iter, buf_types_iter, pixel>>

\* One round of the loop: the query is built for next_index, next_index is
\* incremented (an overflow panics in a build with overflow checks and wraps
\* in one without), and QUERYMENU is issued: success returns the item, EINVAL
\* goes round again, any other error is returned.
TextMenuIter_querymenu ==
    /\ menu_iter.made
    /\ menu_iter.at = "loop"
    /\ LET i == menu_iter.next_index
           r == MenuResponse(menu_iter.menu, i)
           queried == [menu_iter EXCEPT !.queried = @ \cup {i},
                                        !.next_index = (i + 1) % IndexModulus] IN
       \/ /\ i + 1 = IndexModulus
          /\ menu_iter' = [menu_iter EXCEPT !.at = "panicked"]
       \/ /\ r = "Ok"
          /\ menu_iter' = [queried EXCEPT !.items = Append(@, SomeOk(i)),
                                          !.at = "idle"]
       \/ /\ r = "EINVAL"
          /\ menu_iter' = queried
       \/ /\ r \notin {"Ok", "EINVAL"}
          /\ menu_iter' = [queried EXCEPT !.items = Append(@, SomeErr(r)),
                                          !.at = "idle"]
    /\ UNCHANGED <<streamVars, enum_iter, buf_types_iter, pixel>>

TextMenuNext == TextMenuIter_next \/ TextMenuIter_querymenu

TextMenuSpec == TextMenuInit /\ [][TextMenuNext]_vars

----------------------------------------------------------------------------
\* BufTypes and BufTypesIter of buf_type.rs.  A flag set is the set of its
\* bit positions.

\* The names of the buf_types! list, in its order.
BufTypeNames ==
    <<"VIDEO_CAPTURE", "VIDEO_OUTPUT", "VIDEO_OVERLAY", "VBI_CAPTURE", "VBI_OUTPUT",
      "SLICED_VBI_CAPTURE", "SLICED_VBI_OUTPUT", "VIDEO_OUTPUT_OVERLAY",
      "VIDEO_CAPTURE_MPLANE", "VIDEO_OUTPUT_MPLANE", "SDR_CAPTURE", "SDR_OUTPUT",
      "META_CAPTURE", "META_OUTPUT">>

\* The numeric value the list gives each BufType.
BufTypeValue ==
    [VIDEO_CAPTURE |-> 1, VIDEO_OUTPUT |-> 2, VIDEO_OVERLAY |-> 3, VBI_CAPTURE |-> 4,
     VBI_OUTPUT |-> 5, SLICED_VBI_CAPTURE |-> 6, SLICED_VBI_OUTPUT |-> 7,
     VIDEO_OUTPUT_OVERLAY |-> 8, VIDEO_CAPTURE_MPLANE |-> 9,
     VIDEO_OUTPUT_MPLANE |-> 10, SDR_CAPTURE |-> 11, SDR_OUTPUT |-> 12,
     META_CAPTURE |-> 13, META_OUTPUT |-> 14]

\* The bit position of the CapabilityFlags constant of the same name.
CapabilityBit ==
    [VIDEO_CAPTURE |-> 0, VIDEO_OUTPUT |-> 1, VIDEO_OVERLAY |-> 2, VBI_CAPTURE |-> 4,
     VBI_OUTPUT |-> 5, SLICED_VBI_CAPTURE |-> 6, SLICED_VBI_OUTPUT |-> 7,
     VIDEO_OUTPUT_OVERLAY |-> 9, VIDEO_CAPTURE_MPLANE |-> 12,
     VIDEO_OUTPUT_MPLANE |-> 13, SDR_CAPTURE |-> 20, SDR_OUTPUT |-> 22,
     META_CAPTURE |-> 23, META_OUTPUT |-> 27]

\* A capability that has no buffer type: STREAMING, bit 26.
StreamingBit == 26

\* BufType::ALL and BufTypes::CAPS: one entry per name, in list order.
ALL == [k \in DOMAIN BufTypeNames |-> BufTypeValue[BufTypeNames[k]]]
CAPS == [k \in DOMAIN BufTypeNames |-> CapabilityBit[BufTypeNames[k]]]

\* The bits that are flags of BufTypes: `1 << value` for each name.
BufTypesBits == {BufTypeValue[BufTypeNames[k]] : k \in DOMAIN BufTypeNames}

\* BufTypes::from_bits(1 << bit): Some only when the bit is a flag of BufTypes.
from_bits(bit) == IF bit \in BufTypesBits THEN Some(bit) ELSE None

\* Variant of from_capabilities: CAPS[i] sets bit i + 2.
from_capabilities_ShiftedByOne(caps) ==
    {k + 1 : k \in {j \in DOMAIN CAPS : CAPS[j] \in caps /\ from_bits(j + 1) # None}}

\* BufTypes::from_capabilities: CAPS[i] (counted from 0) sets bit i + 1.
from_capabilities(caps) ==
    {Unwrap(from_bits(k)) : k \in {j \in DOMAIN CAPS : CAPS[j] \in caps}}

\* BufTypesIter::next: the loop increments index, returns None when
\* `1 << index` is no flag of BufTypes (the `?`), and the type ALL[index - 1]
\* (counted from 0) when the set contains that flag.
RECURSIVE BufTypesIter_step(_)
BufTypesIter_step(it) ==
    LET advanced == [it EXCEPT !.index = @ + 1]
        flag == from_bits(advanced.index) IN
    IF flag = None
    THEN [advanced EXCEPT !.items = Append(@, NoneItem)]
    ELSE IF Unwrap(flag) \in advanced.buf_types
    THEN [advanced EXCEPT !.items = Append(@, SomeOk(ALL[advanced.index]))]
    ELSE BufTypesIter_step(advanced)

\* Device::supported_buf_types().into_iter() for some capabilities.
BufTypesInit ==
    /\ StreamInit
    /\ \E caps \in SUBSET ({CAPS[k] : k \in DOMAIN CAPS} \cup {StreamingBit}) :
          buf_types_iter = [made |-> TRUE, caps |-> caps,
                            buf_types |-> from_capabilities(caps),
                            index |-> 0, items |-> <<>>]
    /\ enum_iter = NoValue
    /\ menu_iter = NoValue
    /\ pixel = NoValue

\* One call of next, up to and including the first that returns None.
BufTypesIter_next ==
    /\ buf_types_iter.made
    /\ \A k \in DOMAIN buf_types_iter.items : buf_types_iter.items[k] # NoneItem
    /\ buf_types_iter' = BufTypesIter_step(buf_types_iter)
    /\ UNCHANGED <<streamVars, enum_iter, menu_iter, pixel>>

BufTypesSpec == BufTypesInit /\ [][BufTypesIter_next]_vars

----------------------------------------------------------------------------
\* pixel_format.rs and pixelformat.rs: fourcc codes.
\*
\* A byte is a number in 0..255, a char is its code point, a displayed text
\* is the sequence of the code points written.  A u32 is kept as its upper
\* and lower 16 bits (its value is hi * 65536 + lo), which keeps every number
\* inside the range of the model checker's integers.

\* The two types: PixelFormat of pixel_format.rs, Pixelformat of pixelformat.rs.
PixelTypes == {"PixelFormat", "Pixelformat"}

\* The fourcc of the constant RGBA32, b"AB24".
RGBA32 == <<65, 66, 50, 52>>

\* The fourcc codes tried: RGBA32 with the bytes at the positions pos replaced
\* by the bytes repl.
Replaced(pos, repl) == [k \in 1..4 |-> IF k \in pos THEN repl[k] ELSE RGBA32[k]]

\* The sets of at most MaxReplaced positions of a fourcc code.
Positions == {q \in SUBSET (1..4) : Cardinality(q) <= MaxReplaced}

\* u32::from_le_bytes: the first byte is the least significant.
from_le_bytes(bytes) ==
    [lo |-> bytes[1] + 256 * bytes[2], hi |-> bytes[3] + 256 * bytes[4]]

\* u32::to_le_bytes.
to_le_bytes(value) ==
    <<value.lo % 256, value.lo \div 256, value.hi % 256, value.hi \div 256>>

\* Variant: the fourcc read with the first byte as the most significant.
from_fourcc_BigEndian(fourcc) ==
    [hi |-> 256 * fourcc[1] + fourcc[2], lo |-> 256 * fourcc[3] + fourcc[4]]

\* from_fourcc of both types.
from_fourcc(fourcc) == from_le_bytes(fourcc)

\* as_fourcc of both types.
as_fourcc(value) == to_le_bytes(value)

\* A hexadecimal digit in lower case, as a char.
HexDigit(d) == IF d < 10 THEN 48 + d ELSE 87 + d

\* char::escape_unicode of a char below 256: \u{h} or \u{hh}.
escape_unicode(c) ==
    <<92, 117, 123>>
        \o (IF c < 16 THEN <<HexDigit(c)>> ELSE <<HexDigit(c \div 16), HexDigit(c % 16)>>)
        \o <<125>>

\* char::escape_default of a char below 256: tab, carriage return, line feed,
\* quotes and backslash get a backslash, the other chars of 0x20..0x7e stay as
\* they are, every other char is written as a unicode escape.
escape_default(c) ==
    CASE c = 9  -> <<92, 116>>
      [] c = 13 -> <<92, 114>>
      [] c = 10 -> <<92, 110>>
      [] c \in {34, 39, 92} -> <<92, c>>
      [] c \in 32..126 /\ c \notin {34, 39, 92} -> <<c>>
      [] OTHER -> escape_unicode(c)

\* Display of PixelFormat (pixel_format.rs): each byte, as a char, escaped.
PixelFormat_fmt(value) ==
    LET bytes == to_le_bytes(value) IN
    escape_default(bytes[1]) \o escape_default(bytes[2])
        \o escape_default(bytes[3]) \o escape_default(bytes[4])

\* Display of Pixelformat (pixelformat.rs): each byte as a char.
Pixelformat_fmt(value) ==
    LET bytes == to_le_bytes(value) IN
    <<bytes[1], bytes[2], bytes[3], bytes[4]>>

\* A fourcc code and a type for it; nothing is built yet.
PixelInit ==
    /\ StreamInit
    /\ \E type \in PixelTypes, pos \in Positions :
       \E repl \in [pos -> 0..255] :
          pixel = [made |-> TRUE, type |-> type, fourcc |-> Replaced(pos, repl),
                   value |-> None, bytes |-> None, text |-> None]
    /\ enum_iter = NoValue
    /\ menu_iter = NoValue
    /\ buf_types_iter = NoValue

\* from_fourcc(fourcc).
Pixel_from_fourcc ==
    /\ pixel.made
    /\ pixel.value = None
    /\ pixel' = [pixel EXCEPT !.value = Some(from_fourcc(pixel.fourcc))]
    /\ UNCHANGED <<streamVars, enum_iter, menu_iter, buf_types_iter>>

\* as_fourcc() of the built pixel format.
Pixel_as_fourcc ==
    /\ pixel.made
    /\ IsSome(pixel.value)
    /\ pixel.bytes = None
    /\ pixel' = [pixel EXCEPT !.bytes = Some(as_fourcc(Unwrap(pixel.value)))]
    /\ UNCHANGED <<streamVars, enum_iter, menu_iter, buf_types_iter>>

\* to_string() of the built pixel format.
Pixel_to_string ==
    /\ pixel.made
    /\ IsSome(pixel.value)
    /\ pixel.text = None
    /\ pixel' = [pixel EXCEPT !.text =
                    Some(IF pixel.type = "PixelFormat"
                         THEN PixelFormat_fmt(Unwrap(pixel.value))
                         ELSE Pixelformat_fmt(Unwrap(pixel.value)))]
    /\ UNCHANGED <<streamVars, enum_iter, menu_iter, buf_types_iter>>

PixelNext ==
    \/ Pixel_from_fourcc
    \/ Pixel_as_fourcc
    \/ Pixel_to_string

PixelSpec == PixelInit /\ [][PixelNext]_vars

----------------------------------------------------------------------------
\* Properties.

\* The running or last finished call is a dequeue / enqueue whose DQBUF succeeded.
DqbufSucceeded == Len(trace) > 0 /\ trace[1][1] = "DQBUF"
LastEvent == trace[Len(trace)]
InReadCallback == kind = "read" /\ pc = "dq_in_cb"
InWriteCallback == kind = "write" /\ pc = "enq_in_cb"

\* C1: a ReadStream.dequeue whose DQBUF succeeded returns the callback's result
\* (Ok value or Err) when the re-enqueue QBUF succeeds, and the QBUF error when
\* the re-enqueue fails, whatever the callback returned.
C1_DequeueReturnValue ==
    (kind = "read" /\ pc = "idle" /\ DqbufSucceeded) =>
        /\ res \in CallbackResults
        /\ LastEvent[1] \in {"QBUF", "QBUF_failed"}
        /\ LastEvent[1] = "QBUF" => ret = res
        /\ LastEvent[1] = "QBUF_failed" => ret = Err("QBUF")

\* C1 witness: the callback returned an error and the re-enqueue failed as well.
C1_Witness ==
    /\ kind = "read" /\ pc = "idle" /\ DqbufSucceeded
    /\ res = Err("callback")
    /\ LastEvent[1] = "QBUF_failed"

\* C2: in a ReadStream.dequeue whose DQBUF returns i, the events are, in this
\* order and once each: DQBUF returns i, buffer i is marked unqueued, the
\* callback gets buffer i, QBUF is issued for i, also after a callback error.
C2_DequeueOrder ==
    (kind = "read" /\ DqbufSucceeded /\ pc \notin {"drop", "drop_unqueue", "drop_buffers", "end"}) =>
        LET i == trace[1][2]
            order == <<Event("DQBUF", i), Event("unqueued", i), Event("callback", i)>>
        IN  /\ buf_index = Some(i)
            /\ Len(trace) <= 4
            /\ \A k \in 1 .. Len(trace) : k <= 3 => trace[k] = order[k]
            /\ Len(trace) = 4 => trace[4] \in {Event("QBUF", i), Event("QBUF_failed", i)}
            /\ pc = "dq_unqueue" <=> Len(trace) = 1
            /\ pc = "dq_view" <=> Len(trace) = 2
            /\ pc \in {"dq_in_cb", "dq_qbuf"} <=> Len(trace) = 3
            /\ pc \in {"dq_set_queued", "idle"} <=> Len(trace) = 4
            /\ Len(trace) >= 2 /\ pc \notin {"idle"} => ~Queued(i)

\* C2 witness: a finished dequeue whose callback failed and whose QBUF was issued.
C2_Witness ==
    /\ kind = "read" /\ pc = "idle" /\ DqbufSucceeded
    /\ res = Err("callback")
    /\ LastEvent = Event("QBUF", Unwrap(buf_index))

\* C3: while a callback of dequeue or of enqueue holds a view of buffer i, the
\* driver does not own buffer i.
C3_CallbackBufferNotOwned ==
    (InReadCallback \/ InWriteCallback) =>
        /\ IsSome(buf_index)
        /\ Unwrap(buf_index) \in Indices
        /\ Unwrap(buf_index) \notin kqueue
        /\ LastEvent = Event("callback", Unwrap(buf_index))

\* C3 witness: an enqueue callback runs on a dequeued buffer while the driver
\* owns another one.
C3_Witness ==
    /\ InWriteCallback
    /\ DqbufSucceeded
    /\ kqueue # {}

\* C4: outside a dequeue callback every buffer of a constructed ReadStream is
\* queued, also after failed ioctls; inside the callback exactly the buffer
\* passed to it is unqueued.
C4_AllQueuedOutsideCallback ==
    /\ (kind = "read" /\ pc \in {"idle", "dq_dqbuf", "will_block"}) =>
           \A i \in Indices : Queued(i)
    /\ InReadCallback =>
           {i \in Indices : ~Queued(i)} = {Unwrap(buf_index)}

\* C5: whenever a WriteStream.enqueue call starts with the cursor at Some(i),
\* buffer i is unqueued, so `assert!(!buffer.queued)` does not fail.
C5_CursorBufferUnqueued ==
    /\ (kind = "write" /\ pc = "enq_buffer" /\ trace = <<>>
            /\ Unwrap(buf_index) \in Indices) => ~Queued(Unwrap(buf_index))
    /\ ~(pc = "panicked" /\ ret.val = "assertion failed")

\* The last finished enqueue failed in its callback or in its QBUF.
EnqueueFailedOnBuffer == kind = "write" /\ ret \in {Err("callback"), Err("QBUF")}

\* C6: a WriteStream.enqueue that fails in its callback or in the QBUF of its
\* buffer b returns that error and leaves b unqueued with the cursor at Some(b);
\* the next enqueue call hands out b again and issues no DQBUF.
C6_FailedEnqueueKeepsBuffer ==
    /\ [](EnqueueFailedOnBuffer =>
            /\ IsSome(buf_index)
            /\ Unwrap(buf_index) \in Indices
            /\ pc = "idle" =>
                  /\ next_unqueued_buffer = buf_index
                  /\ ~Queued(Unwrap(buf_index))
                  /\ Unwrap(buf_index) \notin kqueue
                  /\ ret = IF LastEvent[1] = "QBUF_failed" THEN Err("QBUF") ELSE res
                  /\ LastEvent[1] = "QBUF_failed" => res.tag = "Ok"
                  /\ LastEvent[1] # "QBUF_failed" =>
                         LastEvent = Event("callback", Unwrap(buf_index))
            /\ pc = "enq_buffer" =>
                  /\ trace = <<>>
                  /\ next_unqueued_buffer = buf_index
                  /\ AssertUnqueued(Unwrap(buf_index))
            /\ pc \in {"enq_in_cb", "enq_qbuf", "enq_set_queued"} =>
                  trace[1] = Event("callback", Unwrap(buf_index))
            /\ pc \notin {"enq_dqbuf", "enq_unqueue", "panicked"})
    /\ [][(EnqueueFailedOnBuffer /\ pc = "idle" /\ calls' = calls + 1) =>
            (pc' = "enq_buffer" /\ buf_index' = buf_index)]_vars

\* C6 witness: after a failed QBUF on a dequeued buffer, the next call is in
\* its callback on the same buffer without a DQBUF.
C6_Witness ==
    /\ EnqueueFailedOnBuffer
    /\ ret = Err("QBUF")
    /\ wrapped
    /\ pc = "enq_in_cb"
    /\ trace = <<Event("callback", Unwrap(buf_index))>>

\* C7: after a successful WriteStream.enqueue the cursor is None or Some(j) with
\* j never queued; it is None once the last index has been used, and a call that
\* started in must-dequeue mode leaves it None.
C7_CursorNeverQueued ==
    (kind = "write" /\ pc = "idle" /\ calls > 0 /\ ret.tag = "Ok") =>
        /\ next_unqueued_buffer = None \/ Unwrap(next_unqueued_buffer) \notin ever_queued
        /\ DqbufSucceeded => next_unqueued_buffer = None
        /\ (~DqbufSucceeded /\ Unwrap(buf_index) = Len(buffers) - 1) =>
               next_unqueued_buffer = None

\* C8 as stated: whenever the cursor is Some(c) between operations, buffer c and
\* every buffer before c are unqueued.
C8_CursorAndBeforeUnqueued ==
    (kind = "write" /\ pc = "idle" /\ IsSome(next_unqueued_buffer)) =>
        \A j \in Indices : j <= Unwrap(next_unqueued_buffer) => ~Queued(j)

\* C8 amended: between operations, as long as the cursor has never yet been
\* None, with the cursor at Some(c) buffer c and every buffer after c are
\* unqueued.
C8_CursorAndAfterUnqueued ==
    (kind = "write" /\ pc = "idle" /\ ~wrapped) =>
        /\ IsSome(next_unqueued_buffer)
        /\ \A j \in Indices : j >= Unwrap(next_unqueued_buffer) => ~Queued(j)

\* C8 witness: the cursor stands at 1 after a failed call, buffer 0 is queued
\* and two buffers remain.
C8_Witness ==
    /\ kind = "write" /\ pc = "idle" /\ ~wrapped
    /\ failed
    /\ next_unqueued_buffer = Some(1)
    /\ Len(buffers) = 3
    /\ Queued(0)

\* The DQBUF events of the running call.
IsDqbuf(ev) == ev[1] \in {"DQBUF", "DQBUF_failed"}

\* C9: with a pool of N >= 1 buffers and no failure, call k <= N uses buffer
\* k-1 without a DQBUF, and every later call issues exactly one DQBUF before
\* the callback and uses the index it returned.
C9_FirstCallsUseCursor ==
    (kind = "write" /\ ~failed /\ Len(buffers) >= 1 /\ calls > 0
        /\ pc \notin {"drop_buffers", "end"}) =>
        LET N == Len(buffers) IN
        /\ pc # "panicked"
        /\ calls <= N =>
              /\ buf_index = Some(calls - 1)
              /\ pc \notin {"enq_dqbuf", "enq_unqueue"}
              /\ SelectSeq(trace, IsDqbuf) = <<>>
              /\ pc # "enq_buffer" => trace[1] = Event("callback", calls - 1)
        /\ calls > N =>
              /\ pc \in {"enq_dqbuf", "enq_unqueue", "enq_buffer", "enq_in_cb",
                         "enq_qbuf", "enq_set_queued", "idle"}
              /\ pc = "enq_dqbuf" => trace = <<>>
              /\ pc # "enq_dqbuf" =>
                    /\ SelectSeq(trace, IsDqbuf) = <<Event("DQBUF", Unwrap(buf_index))>>
                    /\ trace[1] = Event("DQBUF", Unwrap(buf_index))
              /\ pc \in {"enq_in_cb", "enq_qbuf", "enq_set_queued", "idle"} =>
                    trace[3] = Event("callback", Unwrap(buf_index))
        /\ pc = "idle" => LastEvent = Event("QBUF", Unwrap(buf_index))

\* C9 witness: two calls past the pool size have succeeded on a pool of two.
C9_Witness ==
    /\ kind = "write" /\ ~failed /\ pc = "idle"
    /\ Len(buffers) = 2
    /\ calls = 4
    /\ ret.tag = "Ok"

\* The queue and stream ioctls among the events of a call.
IsQueueIoctl(ev) ==
    ev[1] \in {"QBUF", "QBUF_failed", "DQBUF", "DQBUF_failed", "STREAMON",
               "STREAMON_failed", "STREAMOFF", "STREAMOFF_failed"}

\* ReadStream::new has just returned Ok.
ReadStreamConstructed ==
    kind = "read" /\ pc = "idle" /\ Len(trace) > 0 /\ trace[1][1] = "REQBUFS"

\* C10: a successful ReadStream::new with N buffers has issued QBUF for
\* 0..N-1 once each in ascending order, then STREAMON once; on return every
\* buffer is queued and streaming is on.
C10_NewEnqueuesAllThenStreamOn ==
    ReadStreamConstructed =>
        LET N == Len(buffers) IN
        /\ SelectSeq(trace, IsQueueIoctl) =
               [k \in 1 .. (N + 1) |->
                   IF k <= N THEN Event("QBUF", k - 1) ELSE Event("STREAMON", 0)]
        /\ \A i \in Indices : Queued(i)
        /\ kqueue = Indices
        /\ streaming
        /\ ret = Ok("stream")

\* C10 witness: a ReadStream with three buffers has been constructed.
C10_Witness ==
    /\ ReadStreamConstructed
    /\ Len(buffers) = 3

----------------------------------------------------------------------------
\* Construction and teardown.

\* Positions of the events of the running call with one of the given names.
EventsNamed(names) == {k \in DOMAIN trace : trace[k][1] \in names}
StreamOffEvents == EventsNamed({"STREAMOFF", "STREAMOFF_failed"})
LogEvents == {"log_debug", "log_trace", "log_warn"}

\* ReadStream::new failed after Buffers::allocate had succeeded.
ReadConstructionFailed ==
    kind = "read" /\ calls = 0 /\ ret \in {Err("QBUF"), Err("STREAMON")}

StreamOffBeforeUnmap ==
    /\ \A k \in EventsNamed({"munmap"}) : \E j \in StreamOffEvents : j < k
    /\ (pc = "drop_buffers" /\ mapped # {}) => StreamOffEvents # {}
    /\ (pc = "drop_buffers" /\ EventsNamed({"STREAMOFF"}) # {}) =>
           (QueuedSet = {} /\ kqueue = {})

\* C12: when a ReadStream is dropped, STREAMOFF is issued before any region of
\* its pool is unmapped, and after a successful STREAMOFF every buffer is
\* unqueued while the pool is unmapped.
C12_ReadStreamOffBeforeUnmap ==
    /\ kind = "read" => StreamOffBeforeUnmap
    /\ (kind = "read" /\ pc \notin {"drop_buffers", "end"}) =>
           (EventsNamed({"munmap"}) = {} /\ mapped = Indices)

\* C12 witness: a used ReadStream is being unmapped after a successful STREAMOFF.
C12_Witness ==
    /\ kind = "read" /\ pc = "drop_buffers" /\ calls > 0
    /\ EventsNamed({"STREAMOFF"}) # {}
    /\ Len(buffers) = 2
    /\ loop_i = 1

\* C13: when a WriteStream is dropped, STREAMOFF is issued before any region
\* of its pool is unmapped.
C13_WriteStreamOffBeforeUnmap ==
    kind = "write" =>
        \A k \in EventsNamed({"munmap"}) : \E j \in StreamOffEvents : j < k

\* C14: no region of a pool is unmapped while a buffer of that pool has
\* queued == true.
C14_NoUnmapWhileQueued ==
    /\ (pc = "drop_buffers" /\ loop_i < Len(buffers)) => QueuedSet = {}
    /\ (\E i \in Indices : i \notin mapped) => QueuedSet = {}

\* C15: when Buffers::allocate fails at index k >= 1 in QUERYBUF or mmap, the
\* k regions mapped before are unmapped before the error is returned.
C15_FailedAllocateUnmaps ==
    (pc = "end" /\ Len(trace) > 0
        /\ trace[Len(trace)][1] \in {"QUERYBUF_failed", "mmap_failed"}) =>
        mapped = {}

\* The allocation events of Buffers::allocate.
IsAllocEvent(ev) == ev[1] \in {"REQBUFS", "QUERYBUF", "mmap"}

\* Buffers::allocate has returned Ok and no call has been made since.
AllocateSucceeded ==
    /\ pc \in {"enqueue_all", "enqueue_all_set", "stream_on", "idle"}
    /\ Len(trace) > 0
    /\ trace[1][1] = "REQBUFS"

\* C16: a successful Buffers::allocate with N requested and G granted buffers
\* yields a pool of N buffers, or of G when G < N; exactly that many regions
\* are mapped, and position i holds the buffer queried with index i.
C16_PoolSize ==
    /\ [](AllocateSucceeded =>
            LET N == Len(buffers)
                G == trace[1][2]
            IN  /\ N = buffer_count
                /\ N <= G
                /\ EventsNamed({"log_trace"}) # {} => N = G
                /\ mapped = 0 .. (N - 1)
                /\ Cardinality(mapped) = N
                /\ SelectSeq(trace, IsAllocEvent) =
                       <<Event("REQBUFS", G)>> \o
                       [k \in 1 .. (2 * N) |->
                           IF k % 2 = 1 THEN Event("QUERYBUF", (k - 1) \div 2)
                           ELSE Event("mmap", (k - 2) \div 2)])
    /\ [][(pc = "alloc_reqbufs" /\ pc' = "alloc_loop") =>
            LET N == buffer_count
                G == trace'[1][2]
            IN  /\ buffer_count' = IF G < N THEN G ELSE N
                /\ G < N <=> (\E k \in DOMAIN trace' : trace'[k][1] = "log_trace")]_vars

\* C16 witness: three buffers were requested of a WriteStream, two granted.
C16_Witness ==
    /\ AllocateSucceeded
    /\ kind = "write"
    /\ Len(buffers) = 2
    /\ trace[1][2] = 2
    /\ EventsNamed({"log_trace"}) # {}

\* C17: over the life of a stream each region is unmapped at most once and
\* STREAMOFF is issued at most once.
C17_TeardownOnce ==
    /\ \A i \in Indices :
           Cardinality({k \in DOMAIN trace : trace[k] = Event("munmap", i)}) <= 1
    /\ Cardinality(StreamOffEvents) <= 1
    /\ pc \notin {"drop", "drop_unqueue", "drop_buffers", "end"} =>
           (StreamOffEvents = {} /\ EventsNamed({"munmap"}) = {})
    /\ pc = "drop" => (StreamOffEvents = {} /\ EventsNamed({"munmap"}) = {})
    /\ pc = "drop_buffers" => mapped = {i \in Indices : i >= loop_i}

\* C17 witness: a used ReadStream of three buffers has been torn down.
C17_Witness ==
    /\ kind = "read" /\ pc = "end" /\ calls > 0
    /\ Len(buffers) = 3
    /\ Cardinality(EventsNamed({"munmap"})) = 3
    /\ Cardinality(StreamOffEvents) = 1

\* C18: a STREAMOFF that fails while a ReadStream is dropped is logged, is not
\* propagated (no panic, no error value), and the pool is unmapped all the same.
C18_StreamOffFailureLogged ==
    (kind = "read" /\ EventsNamed({"STREAMOFF_failed"}) # {}) =>
        /\ pc \in {"drop_buffers", "end"}
        /\ ret.tag # "panic"
        /\ ret.val # "STREAMOFF"
        /\ pc = "end" => mapped = {}
        /\ \A k \in EventsNamed({"STREAMOFF_failed"}) :
               k < Len(trace) /\ trace[k + 1][1] \in LogEvents

\* C19: after WriteStream::new succeeded every buffer is unqueued, the cursor
\* is Some(0), and neither QBUF nor STREAMON has been issued.
C19_WriteStreamNew ==
    (kind = "write" /\ AllocateSucceeded) =>
        /\ pc = "idle"
        /\ ret = Ok("stream")
        /\ next_unqueued_buffer = Some(0)
        /\ QueuedSet = {}
        /\ kqueue = {}
        /\ ever_queued = {}
        /\ SelectSeq(trace, IsQueueIoctl) = <<>>

\* C19 witness: a WriteStream of three buffers has been constructed.
C19_Witness ==
    /\ kind = "write" /\ AllocateSucceeded
    /\ Len(buffers) = 3

\* C20: a queued flag changes only in the step after its ioctl succeeded: it
\* is set after a successful QBUF of that buffer, cleared after a successful
\* DQBUF of that buffer or a successful STREAMOFF; a failed QBUF, DQBUF or
\* STREAMOFF changes no flag, and the buffer of a failed QBUF is unqueued.
C20_FlagFollowsIoctl ==
    [][/\ (Len(buffers') = Len(buffers) /\ buffers' # buffers) =>
            LET changed == {i \in Indices : Queued(i) # buffers'[i + 1].queued} IN
            /\ Len(trace) > 0
            /\ \/ \E i \in Indices :
                     changed = {i} /\ ~Queued(i) /\ LastEvent = Event("QBUF", i)
               \/ \E i \in Indices :
                     changed = {i} /\ Queued(i) /\ LastEvent = Event("DQBUF", i)
               \/ LastEvent = Event("STREAMOFF", 0) /\ \A i \in changed : Queued(i)
       /\ (trace' # trace /\ Len(trace') > 0
             /\ trace'[Len(trace')][1] \in
                    {"QBUF_failed", "DQBUF_failed", "STREAMOFF_failed"}) =>
            /\ buffers' = buffers
            /\ trace'[Len(trace')][1] = "QBUF_failed" =>
                   ~buffers'[trace'[Len(trace')][2] + 1].queued
      ]_vars

\* C20 witness: STREAMOFF failed in drop and a flag is still set.
C20_Witness ==
    /\ pc = "drop_buffers"
    /\ EventsNamed({"STREAMOFF_failed"}) # {}
    /\ QueuedSet # {}

\* ReadStream::will_block has just returned Ok; `trace` is that call's.
WillBlockReturned == kind = "read" /\ pc = "idle" /\ ret \in {Ok("true"), Ok("false")}

\* C21: a will_block in which no QUERYBUF failed returns false exactly when a
\* QUERYBUF of the call reported a buffer with the DONE flag, and true exactly
\* when it queried every buffer of the pool and none was reported DONE.
C21_WillBlockResult ==
    WillBlockReturned =>
        LET done == EventsNamed({"DONE"}) IN
        /\ EventsNamed({"QUERYBUF_failed"}) = {}
        /\ ret = Ok("false") <=> done # {}
        /\ ret = Ok("true") <=> done = {}
        /\ ret = Ok("true") =>
               trace = [k \in 1 .. Len(buffers) |-> Event("QUERYBUF", k - 1)]
        /\ ret = Ok("false") =>
               /\ done = {Len(trace)}
               /\ trace[Len(trace) - 1] = Event("QUERYBUF", LastEvent[2])

\* C21 witness: will_block found the third buffer DONE after two that were not.
C21_Witness ==
    /\ WillBlockReturned
    /\ ret = Ok("false")
    /\ LastEvent = Event("DONE", 2)
    /\ Len(trace) = 4

\* A step of will_block itself, or any step taken while it runs.
WillBlockEvents == {"QUERYBUF", "QUERYBUF_failed", "DONE"}

\* C22: will_block is a pure peek: from its call to its return it issues only
\* QUERYBUF, changes no queued flag, no cursor and no kernel ownership, and it
\* always has a step to take (it never waits for the driver), whether it
\* returns true, false or an error.
C22_WillBlockPeek ==
    /\ [](pc = "will_block" =>
            /\ ENABLED (WillBlock_QUERYBUF \/ WillBlock_Done)
            /\ \A k \in DOMAIN trace : trace[k][1] \in WillBlockEvents)
    /\ [][(pc = "will_block" \/ pc' = "will_block") =>
            /\ buffers' = buffers
            /\ next_unqueued_buffer' = next_unqueued_buffer
            /\ kqueue' = kqueue
            /\ streaming' = streaming
            /\ mapped' = mapped
            /\ (pc' # pc \/ trace' # trace) => kdone' = kdone
            /\ pc' \in {"will_block", "idle"}
            /\ (pc = "will_block" /\ pc' = "idle") =>
                   ret' \in {Ok("true"), Ok("false"), Err("QUERYBUF")}
          ]_vars

\* C22 witness: will_block returned false on a pool whose buffers are all
\* still queued and owned by the driver.
C22_Witness ==
    /\ WillBlockReturned
    /\ ret = Ok("false")
    /\ Len(buffers) = 3
    /\ QueuedSet = Indices
    /\ kqueue = Indices

\* C23: when will_block has returned false a filled buffer is ready, and it is
\* still ready when the next dequeue issues its DQBUF, which therefore
\* completes without waiting.
C23_FalseMeansReady ==
    (kind = "read" /\ ret = Ok("false") /\ pc \in {"idle", "dq_dqbuf"}) =>
        /\ kdone # {}
        /\ kdone \subseteq kqueue
        /\ streaming

\* C23 witness: the dequeue that follows a will_block returning false is at
\* its DQBUF.
C23_Witness ==
    /\ kind = "read"
    /\ ret = Ok("false")
    /\ pc = "dq_dqbuf"

\* C24: when will_block has returned true, no buffer is ready when the next
\* dequeue issues its DQBUF, so that the DQBUF has to wait for the driver.
C24_TrueMeansBlock ==
    (kind = "read" /\ ret = Ok("true") /\ pc = "dq_dqbuf") => kdone = {}

\* The view that dequeue hands to its callback.
CallbackView == ReadBufferView(buf, Unwrap(buf_index))

\* C25: for whatever byte count and flags DQBUF reported, the view passed to
\* the callback has a used length of at most the capacity, dereferences
\* without a panic to exactly the first used-length bytes of the region of the
\* dequeued buffer, and raw_buffer is that whole region.
C25_ViewWithinBuffer ==
    InReadCallback =>
        LET v == CallbackView
            region == Region(Unwrap(buf_index)) IN
        /\ raw_buffer(v) = region
        /\ v.bytesused <= Len(raw_buffer(v))
        /\ ~deref(v).panic
        /\ deref(v).slice = SubSeq(region, 1, v.bytesused)

\* C26: when DQBUF succeeded, is_error() of the view is true exactly when the
\* driver set the ERROR flag, and with or without that flag the callback is
\* invoked on the dequeued buffer and the QBUF of the re-enqueue follows it.
C26_ErrorFlagStillDelivered ==
    (kind = "read" /\ DqbufSucceeded
       /\ pc \in {"dq_in_cb", "dq_qbuf", "dq_set_queued", "idle"}) =>
        LET i == Unwrap(buf_index) IN
        /\ pc # "idle" => (is_error(CallbackView) <=> "ERROR" \in buf.flags)
        /\ trace[3] = Event("callback", i)
        /\ pc \in {"dq_set_queued", "idle"} =>
               /\ Len(trace) = 4
               /\ trace[4] \in {Event("QBUF", i), Event("QBUF_failed", i)}
        /\ (pc = "idle" /\ trace[4][1] = "QBUF") => (Queued(i) /\ i \in kqueue)

\* C26 witness: a buffer flagged ERROR went through the callback and its
\* QBUF has succeeded.
C26_Witness ==
    /\ kind = "read" /\ pc = "dq_set_queued" /\ DqbufSucceeded
    /\ "ERROR" \in buf.flags
    /\ is_error(CallbackView)
    /\ trace[4] = Event("QBUF", Unwrap(buf_index))
    /\ Unwrap(buf_index) \in kqueue

FailedIoctlNames == {"REQBUFS_failed", "QUERYBUF_failed", "QBUF_failed", "DQBUF_failed",
                     "STREAMON_failed", "STREAMOFF_failed"}
IoctlNames == {"REQBUFS", "QUERYBUF", "QBUF", "DQBUF", "STREAMON", "STREAMOFF"}
IsIoctl(ev) == ev[1] \in IoctlNames \cup FailedIoctlNames
\* The ioctl an event is about.
IoctlOf(ev) ==
    CASE ev[1] \in {"REQBUFS", "REQBUFS_failed"} -> "REQBUFS"
      [] ev[1] \in {"QUERYBUF", "QUERYBUF_failed"} -> "QUERYBUF"
      [] ev[1] \in {"QBUF", "QBUF_failed"} -> "QBUF"
      [] ev[1] \in {"DQBUF", "DQBUF_failed"} -> "DQBUF"
      [] ev[1] \in {"STREAMON", "STREAMON_failed"} -> "STREAMON"
      [] ev[1] \in {"STREAMOFF", "STREAMOFF_failed"} -> "STREAMOFF"
      [] OTHER -> "none"
FailedIoctls == EventsNamed(FailedIoctlNames)
\* The ioctl events of the call that come after position k.
IoctlsAfter(k) == {j \in DOMAIN trace : j > k /\ IsIoctl(trace[j])}

\* C27 as stated: after an ioctl has failed the same ioctl is not issued again
\* in the call, and in new, dequeue, enqueue and will_block (every failure but
\* that of the STREAMOFF of drop) no ioctl at all is issued before the call
\* returns.
C27_NoIoctlAfterFailure ==
    \A k \in FailedIoctls :
        /\ \A j \in IoctlsAfter(k) : IoctlOf(trace[j]) # IoctlOf(trace[k])
        /\ trace[k][1] # "STREAMOFF_failed" => IoctlsAfter(k) = {}

\* C27 amended: after an ioctl has failed the same ioctl is not issued again
\* in the call; dequeue, enqueue, will_block and the allocation issue no
\* further ioctl and return the error; the one further ioctl of a
\* ReadStream::new whose QBUF or STREAMON failed is the single STREAMOFF of
\* the teardown of the stream.
C27_NoRetry ==
    /\ \A k \in FailedIoctls :
          /\ \A j \in IoctlsAfter(k) :
                /\ IoctlOf(trace[j]) # IoctlOf(trace[k])
                /\ IoctlOf(trace[j]) = "STREAMOFF"
                /\ trace[k][1] \in {"QBUF_failed", "STREAMON_failed"}
                /\ ReadConstructionFailed
          /\ Cardinality(IoctlsAfter(k)) <= 1
          /\ (pc \in {"idle", "panicked"} \/ kind = "write") => IoctlsAfter(k) = {}
    /\ (Len(trace) > 0 /\ LastEvent[1] \in FailedIoctlNames \ {"STREAMOFF_failed"}) =>
          /\ ret.tag = "Err"
          /\ pc \in {"idle", "drop", "end"}

\* C27 witness: the QBUF of the second buffer failed in ReadStream::new and
\* the teardown has issued its STREAMOFF.
C27_Witness ==
    /\ ReadConstructionFailed
    /\ pc = "end"
    /\ \E k \in DOMAIN trace :
          /\ trace[k] = Event("QBUF_failed", 1)
          /\ k < Len(trace)
          /\ trace[k + 1][1] = "STREAMOFF"

\* C28: a DQBUF that fails, in dequeue or in the must-dequeue arm of enqueue,
\* is the only event of its call: the call returns that error, the callback is
\* not entered, no QBUF is issued, and the failing step changes no queued flag,
\* no kernel ownership and not the cursor (which stays None).
C28_FailedDqbuf ==
    /\ []((Len(trace) > 0 /\ LastEvent[1] = "DQBUF_failed") =>
            /\ trace = <<Event("DQBUF_failed", 0)>>
            /\ ret = Err("DQBUF")
            /\ pc = "idle"
            /\ kind = "write" => next_unqueued_buffer = None)
    /\ [][(trace' # trace /\ Len(trace') > 0
             /\ trace'[Len(trace')][1] = "DQBUF_failed") =>
            /\ pc \in {"dq_dqbuf", "enq_dqbuf"}
            /\ buffers' = buffers
            /\ next_unqueued_buffer' = next_unqueued_buffer
            /\ kqueue' = kqueue
            /\ kdone' = kdone
          ]_vars

\* C28 witness: the DQBUF of a WriteStream.enqueue failed while every buffer
\* of the pool was queued.
C28_Witness ==
    /\ kind = "write" /\ pc = "idle"
    /\ trace = <<Event("DQBUF_failed", 0)>>
    /\ Len(buffers) = 3
    /\ QueuedSet = Indices
    /\ next_unqueued_buffer = None

\* The program is not between an ioctl and the flag assignment that follows it.
FlagsSettled ==
    pc \notin {"dq_unqueue", "enq_unqueue", "dq_set_queued", "enq_set_queued",
               "enqueue_all_set", "drop_unqueue"}

\* C29: for both stream types, whenever the flag assignment that follows each
\* ioctl has been made, buffer i has queued = true exactly when the driver
\* owns buffer i, whatever operations and ioctl failures came before.
C29_FlagsMatchKernel ==
    FlagsSettled => QueuedSet = kqueue

\* C29 witness: after a failure, some but not all buffers are queued.
C29_Witness ==
    /\ pc = "idle"
    /\ failed
    /\ Len(buffers) = 3
    /\ Cardinality(QueuedSet) = 2
    /\ QueuedSet = kqueue

\* C30: the cursor of a WriteStream, when Some(i), has i inside the pool, and
\* neither enqueue nor dequeue indexes a buffer outside the pool, for every
\* pool size including 0.
C30_IndicesInPool ==
    /\ (kind = "write" /\ pc \notin {"alloc_reqbufs", "alloc_loop"}
          /\ IsSome(next_unqueued_buffer)) =>
           Unwrap(next_unqueued_buffer) \in Indices
    /\ IsSome(buf_index) => Unwrap(buf_index) \in Indices
    /\ ret # [tag |-> "panic", val |-> "index out of bounds"]

\* C31: the stream made by into_stream has the stream type its device
\* negotiated, so that every ioctl of a WriteStream, which copies buf_type
\* into its argument, carries VIDEO_OUTPUT.
C31_StreamTypeIsNegotiated ==
    (kind # "none") =>
        /\ buf_type = NegotiatedBufType(device)
        /\ kind = "write" => buf_type = "VIDEO_OUTPUT"

\* C32: in a ReadStream none of whose ioctls fails, with callbacks that return
\* and a driver that goes on filling queued buffers while streaming, every
\* dequeue call that has been made returns, and its callback has then been
\* invoked exactly once.
C32_DequeueReturns ==
    ([]~IoctlFailed) =>
        ((kind = "read" /\ pc = "dq_dqbuf") ~>
             (pc = "idle" /\ Cardinality(EventsNamed({"callback"})) = 1))

\* C32 witness: the last dequeue the bound allows has returned after one
\* callback, on a pool of two buffers and with no ioctl failure before.
C32_Witness ==
    /\ kind = "read" /\ pc = "idle"
    /\ calls = MaxCalls
    /\ ~failed
    /\ Len(buffers) = 2
    /\ DqbufSucceeded
    /\ Cardinality(EventsNamed({"callback"})) = 1

\* C33: in a WriteStream used through new and enqueue only, with no failing
\* ioctl and a driver that processes buffers only while streaming is on, an
\* enqueue call that has to dequeue first eventually returns.
C33_EnqueueReturns ==
    ([]~IoctlFailed) => ((kind = "write" /\ pc = "enq_dqbuf") ~> pc = "idle")

\* The first index whose query the driver does not answer with success.
FirstFailure(d) ==
    CHOOSE i \in 0 .. (MaxEnumIndex + 1) :
        /\ EnumResponse(d, i) # "Ok"
        /\ \A j \in 0 .. (i - 1) : EnumResponse(d, j) = "Ok"

\* C34: FormatDescIter, InputIter and OutputIter query the indices 0, 1, 2, ...
\* in turn, one per call, and yield one item per successful query; the call
\* whose query fails returns None for EINVAL and the error otherwise; every
\* later call returns None and issues no query.
C34_EnumIteration ==
    enum_iter.made =>
        LET it == enum_iter
            f == FirstFailure(it.driver)
            n == Len(it.items) IN
        /\ it.queries = [k \in 1 .. (IF n <= f + 1 THEN n ELSE f + 1) |-> k - 1]
        /\ \A k \in 1 .. n :
              it.items[k] =
                  IF k <= f THEN SomeOk(k - 1)
                  ELSE IF k = f + 1 /\ EnumResponse(it.driver, f) # "EINVAL"
                       THEN SomeErr(EnumResponse(it.driver, f))
                       ELSE NoneItem

\* C34 witness: an OutputIter yielded index 0, then the error of index 1, then
\* None twice without a further query, although index 2 would have answered.
C34_Witness ==
    /\ enum_iter.made
    /\ enum_iter.iter = "OutputIter"
    /\ enum_iter.items = <<SomeOk(0), SomeErr("EIO"), NoneItem, NoneItem>>
    /\ enum_iter.queries = <<0, 1>>
    /\ EnumResponse(enum_iter.driver, 2) = "Ok"

\* C35: a TextMenuIter queries no menu index above max_index and yields none,
\* no call of next panics, and once every index up to max_index has been
\* tried a call that has returned has returned None.
C35_MenuWithinMax ==
    menu_iter.made =>
        /\ \A i \in menu_iter.queried : i <= menu_iter.max_index
        /\ \A k \in DOMAIN menu_iter.items :
              menu_iter.items[k].tag = "Some(Ok)" =>
                  menu_iter.items[k].val <= menu_iter.max_index
        /\ menu_iter.at # "panicked"

\* The values of the buffer types whose capability flag is in caps.
ExpectedBufTypes(caps) ==
    {BufTypeValue[BufTypeNames[k]] :
        k \in {j \in DOMAIN BufTypeNames : CapabilityBit[BufTypeNames[j]] \in caps}}

\* C36: the items yielded so far by the iterator of from_capabilities(caps)
\* are buffer types whose capability flag is in caps, in strictly ascending
\* order of value with none skipped, and the call after the last of them
\* returns None.
C36_BufTypesIteration ==
    buf_types_iter.made =>
        LET it == buf_types_iter
            expected == ExpectedBufTypes(it.caps)
            n == Len(it.items)
            ended == n > 0 /\ it.items[n] = NoneItem
            yielded == {it.items[k].val :
                           k \in {j \in 1 .. n : it.items[j] # NoneItem}} IN
        /\ \A k \in 1 .. n :
              it.items[k] # NoneItem =>
                  /\ it.items[k].tag = "Some(Ok)"
                  /\ it.items[k].val \in expected
                  /\ \A j \in 1 .. (k - 1) : it.items[j].val < it.items[k].val
                  /\ \A v \in expected :
                        v < it.items[k].val => \E j \in 1 .. (k - 1) : it.items[j].val = v
        /\ \A k \in 1 .. (n - 1) : it.items[k] # NoneItem
        /\ ended => yielded = expected
        /\ n <= Cardinality(expected) + 1

\* C36 witness: capture, metadata capture and streaming capabilities gave
\* VIDEO_CAPTURE, META_CAPTURE and then None.
C36_Witness ==
    /\ buf_types_iter.made
    /\ buf_types_iter.caps = {0, 23, 26}
    /\ buf_types_iter.items = <<SomeOk(1), SomeOk(13), NoneItem>>

\* The chars that char::escape_default leaves as they are: printable ASCII
\* other than the two quotes and the backslash.
PlainBytes == (32..126) \ {34, 39, 92}

\* as_fourcc and to_string have both been called on the built pixel format.
PixelShown == pixel.made /\ IsSome(pixel.bytes) /\ IsSome(pixel.text)

\* C37 as stated: for every fourcc the pixel format built by from_fourcc
\* displays as the four bytes as chars in the same order, and as_fourcc
\* returns the same four bytes.
C37_DisplaysFourBytes ==
    PixelShown =>
        /\ Unwrap(pixel.text) = pixel.fourcc
        /\ Unwrap(pixel.bytes) = pixel.fourcc

\* C37 amended: as_fourcc returns the four bytes from_fourcc was given; a
\* Pixelformat displays as the four bytes as chars in the same order, and a
\* PixelFormat does so exactly when every byte is printable ASCII other than
\* a quote or a backslash: any other byte is displayed as an escape sequence
\* of two or more chars.
C37_FourccRoundTrip ==
    PixelShown =>
        LET plain == \A k \in 1..4 : pixel.fourcc[k] \in PlainBytes IN
        /\ Unwrap(pixel.bytes) = pixel.fourcc
        /\ (pixel.type = "Pixelformat" \/ plain) => Unwrap(pixel.text) = pixel.fourcc
        /\ (pixel.type = "PixelFormat" /\ ~plain) =>
              /\ Len(Unwrap(pixel.text)) > 4
              /\ Unwrap(pixel.text)[1] \in PlainBytes \cup {92}

\* C37 witness: the PixelFormat built from "AB24" displayed as "AB24" and
\* gave back the bytes of "AB24".
C37_Witness ==
    /\ PixelShown
    /\ pixel.type = "PixelFormat"
    /\ pixel.fourcc = RGBA32
    /\ Unwrap(pixel.text) = <<65, 66, 50, 52>>
    /\ Unwrap(pixel.bytes) = <<65, 66, 50, 52>>

====
